---- MODULE Spec2Model ----
(***************************************************************************)
(* Resource lifecycle orchestration core of the deployment engine:         *)
(*   - LocalDocker build platform   (src/src/build_platform/local_docker.rs)*)
(*   - EngineError                  (src/src/errors/mod.rs)                 *)
(*   - docker tag/push retry loops  (src/src/container_registry/docker.rs)  *)
(*   - ECR registry                 (src/src/container_registry/ecr.rs)     *)
(*                                                                         *)
(* A text is a sequence of string pieces; concatenating texts is \o.       *)
(* Where the code works on characters (trim, path matching) the pieces are *)
(* single characters.                                                      *)
(***************************************************************************)
EXTENDS Integers, Sequences, FiniteSets, TLC

\* ------------------------------------------------------------------------
\* Bounds of the model
\* ------------------------------------------------------------------------

\* number of buildpacks builders a configuration may list
MaxBuilders == 3

\* longest Dockerfile path, in characters, drawn for the normalisation
MaxPathLen == 3

\* longest list of build environment variables
MaxEnvVars == 2

\* output lines of a build process that are followed
MaxLines == 1

\* threads of the caller that apply lifecycle actions
MaxThreads == 2

\* Service ids the caller builds services with
MaxServices == 2

\* build() calls that run at the same time
MaxCalls == 2

\* execution ids of the contexts of these calls
MaxExecutions == 2

\* lifecycle hooks of the registry a thread calls one after the other
MaxHookCalls == 3

\* numbers of a requested Redis version (major, minor, patch)
MaxVersionNumbers == 3

\* the largest disk size, in units of space
MaxDiskSize == 5

\* the listeners a caller has, and the longest listener list of a service
MaxListeners == 2

\* previous builds a repository may have, and lines a query may print on
\* each of stdout and stderr
MaxParentBuilds == 2

MaxQueryLines == 3

\* ------------------------------------------------------------------------
\* Program constants
\* ------------------------------------------------------------------------

\* Option<T>: None is the empty sequence, Some(x) the one-element sequence
None == <<>>

Some(x) == <<x>>

IsSome(o) == Len(o) = 1

Unwrap(o) == o[1]

\* local_docker.rs:745  docker_max_disk_percentage_usage_before_purge
DockerMaxDiskPercentage == 60

\* docker.rs:187  Fibonacci::from_millis(3000).take(5): delays of the tag retry
TagRetryDelays == 5

\* a mutant: the push retry is given more delays than the tag retry
PushRetryDelays_Larger == TagRetryDelays + 3

\* docker.rs:206  Fibonacci::from_millis(5000).take(5): delays of the push retry
PushRetryDelays == 5

\* ecr.rs:199  Fixed::from_millis(5000).take(24): delays of the creation retry
CreateRepositoryRetryDelays == 24

\* ecr.rs:294-297  retention of the lifecycle policy, in days
TestClusterRetentionDays == 1

ProductionRetentionDays == 365

\* the key that is a build-cache flag rather than a build argument
DisableBuildCacheKey == "QOVERY_DISABLE_BUILD_CACHE"

\* ------------------------------------------------------------------------
\* Texts
\* ------------------------------------------------------------------------

\* str::trim: whitespace characters
IsWhitespace(c) == c \in {" ", "\t"}

RECURSIVE TrimStart(_)
TrimStart(s) ==
    IF s = <<>> THEN s
    ELSE IF IsWhitespace(Head(s)) THEN TrimStart(Tail(s)) ELSE s

RECURSIVE TrimEnd(_)
TrimEnd(s) ==
    IF s = <<>> THEN s
    ELSE IF IsWhitespace(s[Len(s)]) THEN TrimEnd(SubSeq(s, 1, Len(s) - 1)) ELSE s

Trim(s) == TrimEnd(TrimStart(s))

\* the characters of "Dockerfile"
Dockerfile == <<"D", "o", "c", "k", "e", "r", "f", "i", "l", "e">>

\* a mutant: the path is matched without being trimmed
DockerfileNormalizedPath_Untrimmed(dockerfile_relative_path) ==
    IF dockerfile_relative_path \in
         {<<>>, <<".">>, <<"/">>, <<"/", ".">>, <<".", "/">>, Dockerfile}
    THEN Dockerfile
    ELSE dockerfile_relative_path

DockerfileNormalizedPath(dockerfile_relative_path) ==
    LET trimmed == Trim(dockerfile_relative_path)
    IN  IF trimmed \in {<<>>, <<".">>, <<"/">>, <<"/", ".">>, <<".", "/">>, Dockerfile}
        THEN Dockerfile
        ELSE trimmed

\* one-piece text
T(s) == <<s>>

\* str::split('@'): the parts between the separators, one more than separators
RECURSIVE SplitAt(_, _)
SplitAt(text, sep) ==
    IF \A i \in 1..Len(text) : text[i] # sep
    THEN <<text>>
    ELSE LET i == CHOOSE j \in 1..Len(text) :
                    text[j] = sep /\ \A k \in 1..(j - 1) : text[k] # sep
         IN  <<SubSeq(text, 1, i - 1)>> \o SplitAt(SubSeq(text, i + 1, Len(text)), sep)

\* String::to_lowercase on the values the model draws
ToLowercase(v) ==
    CASE v = "TRUE" -> "true"
      [] v = "True" -> "true"
      [] OTHER -> v

\* ------------------------------------------------------------------------
\* Build inputs
\* ------------------------------------------------------------------------

\* Image::name_with_tag / name_with_latest_tag of the target image
ImageName == "app"

ImageTag == "c0ffee"

NameWithTag == <<ImageName, ":", ImageTag>>

NameWithLatestTag == <<ImageName, ":", "latest">>

\* workspace_directory(root, execution_id, "build/<image name>")
RepositoryRootPath == <<"/workspace/build/", ImageName>>

\* build.git_repository.root_path
GitRootPath == <<"src">>

\* the configured builders: BUILDPACKS_BUILDERS and the two it lists as removed
BuilderName(i) ==
    CASE i = 1 -> "heroku/buildpacks:20"
      [] i = 2 -> "gcr.io/buildpacks/builder:v1"
      [] i = 3 -> "paketobuildpacks/builder:base"
      [] OTHER -> ToString(i)

BuilderList(n) == [i \in 1..n |-> BuilderName(i)]

\* environment variables: key and value
EnvKeys == {"PORT", DisableBuildCacheKey}

EnvValues == {"true", "TRUE", "false"}

EnvVar == [key : EnvKeys, value : EnvValues]

SeqsUpTo(S, n) == UNION {[1..m -> S] : m \in 0..n}

\* Dockerfile paths of build requests
BuildDockerfilePaths ==
    {None, Some(<<>>), Some(<<" ", ".", "/">>), Some(<<"a">>)}

\* buildpack language hints of build requests
BuildpackLanguages ==
    {None, Some(<<"heroku/python">>), Some(<<"heroku/python", "@", "3">>),
     Some(<<"heroku/python", "@", "3", "@", "9">>)}

\* environment variable lists of build requests
BuildEnvironments ==
    {<<>>, <<[key |-> DisableBuildCacheKey, value |-> "TRUE"]>>,
     <<[key |-> "PORT", value |-> "false"]>>}

\* ------------------------------------------------------------------------
\* build(): environment variables (local_docker.rs 541-552)
\* ------------------------------------------------------------------------

\* a mutant: the key alone makes the flag
IsDisableBuildCacheFlag_KeyOnly(ev) == ev.key = DisableBuildCacheKey

IsDisableBuildCacheFlag(ev) ==
    ev.key = DisableBuildCacheKey /\ ToLowercase(ev.value) = "true"

DisableBuildCache(environment_variables) ==
    \E i \in 1..Len(environment_variables) :
        IsDisableBuildCacheFlag(environment_variables[i])

RECURSIVE EnvVarArgs(_)
EnvVarArgs(environment_variables) ==
    IF environment_variables = <<>> THEN <<>>
    ELSE LET ev == Head(environment_variables)
         IN  (IF IsDisableBuildCacheFlag(ev) THEN <<>>
              ELSE << <<ev.key, "=", ev.value>> >>)
             \o EnvVarArgs(Tail(environment_variables))

\* docker::match_used_env_var_args: the arguments whose key the Dockerfile uses
MatchUsedEnvVarArgs(env_var_args, used_args) ==
    SelectSeq(env_var_args, LAMBDA arg : arg[1] \in used_args)

RECURSIVE Flagged(_, _)
Flagged(flag, values) ==
    IF values = <<>> THEN <<>>
    ELSE <<T(flag), Head(values)>> \o Flagged(flag, Tail(values))

\* build_image_with_docker: the arguments of `docker build`
DockerArgs(use_build_cache, dockerfile_complete_path, into_dir, env_var_args, used_args) ==
    (IF ~use_build_cache THEN <<T("build"), T("--no-cache")>> ELSE <<T("build")>>)
    \o <<T("-f"), dockerfile_complete_path, T("-t"), NameWithTag, T("-t"), NameWithLatestTag>>
    \o Flagged("--build-arg", MatchUsedEnvVarArgs(env_var_args, used_args))
    \o <<into_dir>>

\* build_image_with_buildpacks: the parts of the language hint
LanguageParts(buildpacks_language) == SplitAt(buildpacks_language, "@")

\* build_image_with_buildpacks: the arguments of `pack build` for one builder
BuildpacksArgs(use_build_cache, into_dir, env_var_args, builder_name, language, procfile_worker) ==
    (IF ~use_build_cache
       THEN <<T("build"), NameWithTag, T("--clear-cache")>>
       ELSE <<T("build"), NameWithTag>>)
    \o <<T("--path"), into_dir>>
    \o Flagged("--env", env_var_args)
    \o <<T("-B"), T(builder_name)>>
    \o (IF IsSome(language)
          THEN <<T("-b"), LanguageParts(Unwrap(language))[1]>>
          ELSE <<>>)
    \o (IF procfile_worker THEN <<T("--default-process"), T("worker")>> ELSE <<>>)


\* ------------------------------------------------------------------------
\* State
\* ------------------------------------------------------------------------

VARIABLES
    \* LocalDocker.build(): position in the call
    pc,
    \* the Build consumed by the call and the force_build argument
    build, force_build,
    \* BUILDPACKS_BUILDERS of the configuration
    builders,
    \* what is_task_canceled() returns now
    canceled,
    \* the target image is in the local docker daemon
    image_exists,
    \* the build workspace: "absent", "stale" (left by an earlier build), "cloned"
    workspace,
    \* external processes run through QoveryCommand, in order
    cmds,
    \* git::clone_at_commit calls
    clones,
    \* samples of is_task_canceled(): where and what it returned
    samples,
    \* logger.log calls at LogLevel::Error and LogLevel::Warning
    error_logs, warning_logs,
    \* progress events of ProgressLevel::Error sent to the listeners
    error_events,
    \* progress events sent for output lines of the running process
    line_events,
    \* closing progress messages of build()
    closing,
    \* the running process: the build timeout elapsed
    timed_out,
    \* is_task_canceled() became true while a build process was running
    canceled_in_exec,
    \* build_image_with_buildpacks: loop index, exit_status, attempts made
    builder_idx, exit_status, attempts,
    \* what exec_with_abort returned for each `pack build`, in order
    outcomes,
    \* env_var_args and use_build_cache computed by build()
    env_var_args, use_build_cache,
    \* the argument names the Dockerfile of the build uses (its content, as
    \* match_used_env_var_args reads it); set when the Dockerfile is read
    dockerfile_used_args,
    \* what docker_prune_images returned: None (not run) or Some(failed commands)
    prune_result,
    \* Path::exists of the Dockerfile: None (not looked at) or Some(bool)
    dockerfile_on_disk,
    \* env::var_os("CI") was Some(_) when build() read it
    ci_env,
    \* what build() returned
    result

buildVars ==
    <<pc, dockerfile_used_args, dockerfile_on_disk, ci_env, build, force_build, builders, canceled, image_exists, workspace, cmds,
      clones, samples, error_logs, warning_logs, error_events, line_events,
      closing, timed_out, canceled_in_exec, builder_idx, exit_status, attempts,
      outcomes, env_var_args, use_build_cache, prune_result, result>>

VARIABLES
    \* the EngineErrors constructed, by slot: None or Some(error)
    errors,
    \* what message() returned for the error of each slot: None or Some(text)
    messages,
    \* the constructor that built the error of each slot
    sites,
    \* what to_legacy_engine_error returned for the error of each slot: None or
    \* Some(legacy error)
    legacy_errors

errorVars == <<errors, messages, sites, legacy_errors>>

VARIABLES
    \* ECR push()/pull(): position in the call
    rpc,
    \* the operation called: "pull" or "push", and force_push
    rop, force_push,
    \* the remote registry: the repository exists, the image exists in it,
    \* the retention of its lifecycle policy in days (None: no policy)
    repo_exists, remote_image, policy_days,
    \* Context::is_test_cluster
    is_test_cluster,
    \* calls to the provider API and docker commands, in order
    rcalls,
    \* the retry::retry in progress
    retry,
    \* create_repository: repo_creation_counter
    repo_creation_counter,
    \* what does_image_exists returned in this call: None (not called) or Some(bool)
    image_seen,
    \* the registry accepted the login of this call: None (no login yet) or Some(bool)
    logged_in,
    \* the existence check of get_or_create_repository: None (not made) or
    \* Some([found, existed]): what get_repository answered and whether the
    \* repository was there
    repository_seen,
    \* what push()/pull() returned
    rresult

registryVars ==
    <<rpc, rop, force_push, repo_exists, remote_image, policy_days,
      is_test_cluster, rcalls, retry, repo_creation_counter, image_seen, logged_in, repository_seen, rresult>>

VARIABLES
    \* the lifecycle action each thread of the caller applies: the RedisAws it
    \* built (id, action), the state of the lifecycle, and what the hooks of
    \* the service did (logs, error hooks run, progress error events)
    service

serviceVars == <<service>>

VARIABLES
    \* build() calls that run at the same time: position of each call and the
    \* execution id of its context
    calls,
    \* the build workspaces on disk, by path: whether the directory exists and
    \* the call whose clone filled it (0: left by an earlier attempt)
    directories

workspaceVars == <<calls, directories>>

VARIABLES
    \* the task of a push() was cancelled: None, or Some(number of registry
    \* calls made before the cancellation)
    canceled_at

taskVars == <<canceled_at>>

VARIABLES
    \* the lifecycle hooks of the ECR registry each thread has called, what
    \* they returned, and the lines they logged
    registry_hooks

hookVars == <<registry_hooks>>

VARIABLES
    \* a call of get_redis_version: its arguments and None or Some(result)
    version_requested, is_managed_service, version_result

versionVars == <<version_requested, is_managed_service, version_result>>

VARIABLES
    \* a call of check_docker_space_usage_and_clean: the disk it is given and
    \* the state of the call (position, prune commands run, commands that
    \* failed, log lines, what it returned)
    docker_path_size_info, disk_check

diskVars == <<docker_path_size_info, disk_check>>

VARIABLES
    \* a call of has_cache: its position, what the workspace and the previous
    \* build lookups gave, the lines `docker images -q` printed, how the
    \* command ended, the local variable `result` and what the call returned
    cache_check

cacheVars == <<cache_check>>

VARIABLES
    \* the listener list of each service, and the last call made on a service:
    \* the service and the name of the operation
    listeners, last_call

listenVars == <<listeners, last_call>>

vars == <<buildVars, errorVars, registryVars, serviceVars, workspaceVars, taskVars, hookVars, versionVars, diskVars, cacheVars, listenVars>>

nonBuildVars == <<errorVars, registryVars, serviceVars, workspaceVars, taskVars, hookVars, versionVars, diskVars, cacheVars, listenVars>>

nonErrorVars == <<buildVars, registryVars, serviceVars, workspaceVars, taskVars, hookVars, versionVars, diskVars, cacheVars, listenVars>>

nonRegistryVars == <<buildVars, errorVars, serviceVars, workspaceVars, taskVars, hookVars, versionVars, diskVars, cacheVars, listenVars>>

nonServiceVars == <<buildVars, errorVars, registryVars, workspaceVars, taskVars, hookVars, versionVars, diskVars, cacheVars, listenVars>>

nonWorkspaceVars == <<buildVars, errorVars, registryVars, serviceVars, taskVars, hookVars, versionVars, diskVars, cacheVars, listenVars>>

nonTaskVars == <<buildVars, errorVars, registryVars, serviceVars, workspaceVars, hookVars, versionVars, diskVars, cacheVars, listenVars>>

nonHookVars == <<buildVars, errorVars, registryVars, serviceVars, workspaceVars, taskVars, versionVars, diskVars, cacheVars, listenVars>>

nonVersionVars ==
    <<buildVars, errorVars, registryVars, serviceVars, workspaceVars, taskVars, hookVars, diskVars,
      cacheVars,
      listenVars>>

nonDiskVars ==
    <<buildVars, errorVars, registryVars, serviceVars, workspaceVars, taskVars, hookVars,
      versionVars,
      cacheVars,
      listenVars>>

nonCacheVars ==
    <<buildVars, errorVars, registryVars, serviceVars, workspaceVars,
      taskVars, hookVars, versionVars, diskVars,
      listenVars>>

nonListenVars ==
    <<buildVars, errorVars, registryVars, serviceVars, workspaceVars,
      taskVars, hookVars, versionVars, diskVars, cacheVars>>

\* ------------------------------------------------------------------------
\* Errors built by the build platform
\* ------------------------------------------------------------------------

NoResult == [kind |-> "none", tag |-> "", builders |-> <<>>, build |-> None]

\* Ok(BuildResult { build })
BuildResult(b) == [kind |-> "ok", tag |-> "", builders |-> <<>>, build |-> Some(b)]

\* EngineError::new_<site>: one Tag per failure site
BuildError(tag) == [kind |-> "err", tag |-> tag, builders |-> <<>>, build |-> None]

new_task_cancellation_requested == BuildError("TaskCancellationRequested")

new_buildpack_cannot_build_container_image(builder_names) ==
    [kind |-> "err", tag |-> "BuildpackCannotBuildContainerImage",
     builders |-> builder_names, build |-> None]

\* ------------------------------------------------------------------------
\* The command executor (cmd::command::QoveryCommand)
\* ------------------------------------------------------------------------

Command(binary, args) == [binary |-> binary, args |-> args]

\* exec_with_abort: a kill (cancellation or timeout) beats the exit code
ExecWithAbortResults(is_canceled, is_timed_out) ==
    IF is_canceled \/ is_timed_out
    THEN {[ok |-> FALSE, variant |-> "Killed"]}
    ELSE {[ok |-> TRUE, variant |-> "Ok"], [ok |-> FALSE, variant |-> "ExitStatusError"]}

\* errors::CommandError::new(format!("{:?}", err), None): the variant is only text now
CommandErrorNew(err) == [ok |-> FALSE, variant |-> "CommandError"]

\* map_err(|err| CommandError::new(...)) on the result of exec_with_abort
MapErrCommandErrorNew(res) == IF res.ok THEN res ELSE CommandErrorNew(res)

\* the pattern Err(Killed(_))
IsKilled(res) == ~res.ok /\ res.variant = "Killed"

\* ------------------------------------------------------------------------
\* LocalDocker.build()
\* ------------------------------------------------------------------------

Sample(at) == samples' = Append(samples, [at |-> at, value |-> canceled])

\* return from build() without the closing message
Return(r) == result' = r /\ pc' = "done"

\* the result of the strategy, handed to the closing message
Finish(r) == result' = r /\ pc' = "report"

\* the state at the call of build(), for a set of Builds and of builder counts
BuildInitWith(builds, builder_counts) ==
    /\ pc = "entry"
    /\ build \in builds
    /\ force_build \in BOOLEAN
    /\ builders \in {BuilderList(n) : n \in builder_counts}
    /\ canceled \in BOOLEAN
    /\ image_exists \in BOOLEAN
    /\ workspace \in {"absent", "stale"}
    /\ cmds = <<>>
    /\ clones = 0
    /\ samples = <<>>
    /\ error_logs = 0
    /\ warning_logs = 0
    /\ error_events = 0
    /\ line_events = 0
    /\ closing = <<>>
    /\ timed_out = FALSE
    /\ canceled_in_exec = FALSE
    /\ builder_idx = 1
    /\ exit_status = [ok |-> FALSE, variant |-> "CommandError"]
    /\ attempts = 0
    /\ outcomes = <<>>
    /\ env_var_args = <<>>
    /\ use_build_cache = TRUE
    /\ prune_result = None
    /\ dockerfile_used_args = {}
    /\ dockerfile_on_disk = None
    /\ ci_env = FALSE
    /\ result = NoResult

\* the build requests of a call: each field of the request varied, with and
\* without a Dockerfile path, and a Dockerfile path with a language hint
BuildRequests ==
    LET request(path, language, environment) ==
            [dockerfile_path |-> path, buildpack_language |-> language,
             environment_variables |-> environment]
    IN  {request(path, None, <<>>) : path \in BuildDockerfilePaths}
        \cup {request(None, language, <<>>) : language \in BuildpackLanguages}
        \cup {request(path, None, environment) :
                 path \in {None, Some(<<>>)}, environment \in BuildEnvironments}
        \cup {request(Some(<<>>), language, <<>>) : language \in BuildpackLanguages}

BuildPlatformInit == BuildInitWith(BuildRequests, 1..MaxBuilders)

\* the characters Dockerfile paths are drawn from
PathChars == {" ", ".", "/", "a"}

\* the Dockerfile paths drawn for the normalisation
PathInputs ==
    SeqsUpTo(PathChars, MaxPathLen)
    \cup {Dockerfile, <<" ">> \o Dockerfile, Dockerfile \o <<" ">>, Dockerfile \o <<"/">>}

\* forced builds with a Dockerfile at any of the paths
DockerfilePathInit ==
    /\ BuildInitWith([dockerfile_path : {Some(p) : p \in PathInputs},
                      buildpack_language : {None},
                      environment_variables : {<<>>}],
                     {1})
    /\ force_build
    /\ ~image_exists
    /\ ~canceled
    /\ workspace = "absent"

\* forced builds with a Dockerfile and any list of environment variables
EnvironmentInit ==
    /\ BuildInitWith([dockerfile_path : {Some(<<>>)},
                      buildpack_language : {None},
                      environment_variables : SeqsUpTo(EnvVar, MaxEnvVars)],
                     {1})
    /\ force_build
    /\ ~image_exists
    /\ ~canceled
    /\ workspace = "absent"

\* the task is cancelled from outside, at any moment of the call
Cancel ==
    /\ pc # "done"
    /\ ~canceled
    /\ canceled' = TRUE
    /\ canceled_in_exec' = (canceled_in_exec \/ pc \in {"docker_running", "pack_running"})
    /\ UNCHANGED <<pc, build, force_build, builders, image_exists, workspace, cmds,
                   clones, samples, error_logs, warning_logs, error_events,
                   line_events, closing, timed_out, builder_idx, exit_status,
                   attempts, env_var_args, use_build_cache, outcomes, prune_result, dockerfile_used_args, result>>
    /\ UNCHANGED dockerfile_on_disk
    /\ UNCHANGED ci_env
    /\ UNCHANGED nonBuildVars

\* build(): is_task_canceled() at entry (459-461)
BuildEntry ==
    /\ pc = "entry"
    /\ Sample("entry")
    /\ IF canceled
         THEN Return(new_task_cancellation_requested)
         ELSE pc' = "cache_check" /\ UNCHANGED result
    /\ UNCHANGED <<build, force_build, builders, canceled, image_exists, workspace,
                   cmds, clones, error_logs, warning_logs, error_events,
                   line_events, closing, timed_out, canceled_in_exec, builder_idx,
                   exit_status, attempts, env_var_args, use_build_cache, outcomes, prune_result, dockerfile_used_args>>
    /\ UNCHANGED dockerfile_on_disk
    /\ UNCHANGED ci_env
    /\ UNCHANGED nonBuildVars

\* image_does_exist: `docker image inspect <name:tag>` succeeded (50-58)
ImageInspect == Command("docker", <<T("image"), T("inspect"), NameWithTag>>)

\* a mutant: the negation of force_build is lost
CacheHit_ForcedOnly(force, exists) == force /\ exists

\* build(): !force_build && image_does_exist (465)
CacheHit(force, exists) == ~force /\ exists

\* build(): the cache check (465-478)
BuildCacheCheck ==
    /\ pc = "cache_check"
    /\ cmds' = IF force_build THEN cmds ELSE Append(cmds, ImageInspect)
    /\ IF CacheHit(force_build, image_exists)
         THEN Return(BuildResult(build))
         ELSE pc' = "workspace" /\ UNCHANGED result
    /\ UNCHANGED <<build, force_build, builders, canceled, image_exists, workspace,
                   clones, samples, error_logs, warning_logs, error_events,
                   line_events, closing, timed_out, canceled_in_exec, builder_idx,
                   exit_status, attempts, env_var_args, use_build_cache, outcomes, prune_result, dockerfile_used_args>>
    /\ UNCHANGED dockerfile_on_disk
    /\ UNCHANGED ci_env
    /\ UNCHANGED nonBuildVars

\* build(): workspace path, removal of an earlier workspace, is_task_canceled()
\* before the clone (480-522)
BuildWorkspace ==
    /\ pc = "workspace"
    /\ \E path_ok \in BOOLEAN :
         IF ~path_ok
           THEN /\ Return(BuildError("CannotGetWorkspaceDirectory"))
                /\ UNCHANGED <<workspace, samples>>
           ELSE /\ workspace' = "absent"
                /\ Sample("pre_clone")
                /\ IF canceled
                     THEN Return(new_task_cancellation_requested)
                     ELSE pc' = "clone" /\ UNCHANGED result
    /\ UNCHANGED <<build, force_build, builders, canceled, image_exists, cmds,
                   clones, error_logs, warning_logs, error_events, line_events,
                   closing, timed_out, canceled_in_exec, builder_idx, exit_status,
                   attempts, env_var_args, use_build_cache, outcomes, prune_result, dockerfile_used_args>>
    /\ UNCHANGED dockerfile_on_disk
    /\ UNCHANGED ci_env
    /\ UNCHANGED nonBuildVars

\* a mutant: the result of the clone is not looked at
CloneFailed_Ignored(clone_ok) == FALSE

\* build(): `if let Err(clone_error) = git::clone_at_commit(..)` (523)
CloneFailed(clone_ok) == ~clone_ok

\* build(): git::clone_at_commit (523-539)
BuildClone ==
    /\ pc = "clone"
    /\ clones' = clones + 1
    /\ \E clone_ok \in BOOLEAN :
         /\ workspace' = IF clone_ok THEN "cloned" ELSE workspace
         /\ IF CloneFailed(clone_ok)
              THEN /\ error_logs' = error_logs + 1
                   /\ Return(BuildError("BuilderCloneRepositoryError"))
              ELSE /\ pc' = "prepare"
                   /\ UNCHANGED <<result, error_logs>>
    /\ UNCHANGED <<build, force_build, builders, canceled, image_exists, cmds,
                   samples, warning_logs, error_events, line_events, closing,
                   timed_out, canceled_in_exec, builder_idx, exit_status, attempts,
                   env_var_args, use_build_cache, outcomes, prune_result, dockerfile_used_args>>
    /\ UNCHANGED dockerfile_on_disk
    /\ UNCHANGED ci_env
    /\ UNCHANGED nonBuildVars


\* docker_prune_images: the four prune commands, in order (780-786)
AllPrunesCommands ==
    << <<T("container"), T("prune"), T("-f")>>,
       <<T("image"), T("prune"), T("-a"), T("-f")>>,
       <<T("builder"), T("prune"), T("-a"), T("-f")>>,
       <<T("volume"), T("prune"), T("-f")>> >>

PruneCommands == [i \in 1..Len(AllPrunesCommands) |-> Command("docker", AllPrunesCommands[i])]

\* docker_prune_images: the commands that failed, in order (788-801)
ErroredCommands(failed) ==
    LET names == [i \in 1..Len(AllPrunesCommands) |-> AllPrunesCommands[i][1][1]]
    IN  [i \in 1..Cardinality(failed) |->
            names[CHOOSE j \in failed : Cardinality({k \in failed : k < j}) = i - 1]]

\* the disks sysinfo may report for the mount point /var/lib/docker
Disks ==
    {[available |-> 0, total |-> 10], [available |-> 5, total |-> 10],
     [available |-> 6, total |-> 10], [available |-> 0, total |-> 0]}

\* check_docker_space_usage_and_clean: the purge condition (746-749)
NeedsPurge(disk) ==
    (disk.available * 100) \div disk.total < DockerMaxDiskPercentage \/ disk.available = 0

\* build(): the environment variables and the disk check (541-596)
BuildPrepare ==
    /\ pc = "prepare"
    /\ env_var_args' = EnvVarArgs(build.environment_variables)
    /\ use_build_cache' = ~DisableBuildCache(build.environment_variables)
    /\ \E ci \in BOOLEAN, disk \in {None} \cup {Some(d) : d \in Disks} :
         /\ ci_env' = ci
         /\ IF ci \/ disk = None
           THEN pc' = "select" /\ UNCHANGED <<cmds, warning_logs, prune_result>>
           ELSE IF Unwrap(disk).total = 0
             \* integer division by zero
             THEN pc' = "panicked" /\ UNCHANGED <<cmds, warning_logs, prune_result>>
             ELSE IF NeedsPurge(Unwrap(disk))
               THEN \E failed \in SUBSET (1..Len(AllPrunesCommands)) :
                      /\ cmds' = cmds \o PruneCommands
                      /\ prune_result' = Some(ErroredCommands(failed))
                      /\ warning_logs' = warning_logs + (IF failed = {} THEN 1 ELSE 2)
                      /\ pc' = "select"
               ELSE pc' = "select" /\ UNCHANGED <<cmds, warning_logs, prune_result>>
    /\ UNCHANGED <<build, force_build, builders, canceled, image_exists, workspace,
                   clones, samples, error_logs, error_events, line_events, closing,
                   timed_out, canceled_in_exec, builder_idx, exit_status, attempts,
                   outcomes, dockerfile_used_args, result>>
    /\ UNCHANGED dockerfile_on_disk
    /\ UNCHANGED nonBuildVars

\* build(): format!("{}/{}/.", repository_root_path, root_path) (599)
BuildContextPath == RepositoryRootPath \o <<"/">> \o GitRootPath \o <<"/", ".">>

\* build(): the Dockerfile path inside the workspace (610-611)
DockerfileAbsolutePath(dockerfile_path) ==
    RepositoryRootPath \o <<"/">> \o GitRootPath \o <<"/">> \o DockerfileNormalizedPath(dockerfile_path)

\* what the Dockerfile may reference, as the names match_used_env_var_args extracts
DockerfileUsedArgs == SUBSET EnvKeys

\* a mutant: the Dockerfile strategy is never selected
UsesDockerfile_Never(b) == FALSE

\* build(): build.git_repository.dockerfile_path.is_some() (601)
UsesDockerfile(b) == IsSome(b.dockerfile_path)

\* a mutant: the Dockerfile is not looked for before it is read
DockerfileExists_Unchecked(file) == TRUE

\* build(): Path::new(dockerfile_absolute_path).exists() (614)
DockerfileExists(file) == file # "missing"

\* build(): strategy selection; build_image_with_docker up to the start of
\* `docker build` (598-644, 94-153)
BuildSelectDocker ==
    /\ pc = "select"
    /\ UsesDockerfile(build)
    /\ LET path == DockerfileAbsolutePath(Unwrap(build.dockerfile_path))
       IN  \E file \in {"missing", "unreadable", "not_utf8", "ok"}, used_args \in DockerfileUsedArgs :
             /\ dockerfile_on_disk' = Some(file # "missing")
             /\ IF ~DockerfileExists(file)
                  THEN /\ error_events' = error_events + 1
                       /\ error_logs' = error_logs + 1
                       /\ Return(BuildError("DockerCannotFindDockerfile"))
                       /\ UNCHANGED <<cmds, timed_out, dockerfile_used_args>>
                  ELSE CASE file \in {"missing", "unreadable"} ->
                              \* get_dockerfile_content: fs::read fails (68-81)
                              /\ error_logs' = error_logs + 1
                              /\ Finish(BuildError("DockerCannotReadDockerfile"))
                              /\ UNCHANGED <<cmds, timed_out, error_events, dockerfile_used_args>>
                         [] file = "not_utf8" ->
                              /\ error_logs' = error_logs + 1
                              /\ Finish(BuildError("DockerCannotExtractEnvVarsFromDockerfile"))
                              /\ UNCHANGED <<cmds, timed_out, error_events, dockerfile_used_args>>
                         [] file = "ok" ->
                              /\ cmds' = Append(cmds, Command("docker",
                                            DockerArgs(use_build_cache, path, BuildContextPath,
                                                       env_var_args, used_args)))
                              /\ dockerfile_used_args' = used_args
                              /\ timed_out' = FALSE
                              /\ pc' = "docker_running"
                              /\ UNCHANGED <<result, error_logs, error_events>>
    /\ UNCHANGED <<build, force_build, builders, canceled, image_exists, workspace,
                   clones, samples, warning_logs, line_events, closing,
                   canceled_in_exec, builder_idx, exit_status, attempts,
                   env_var_args, use_build_cache, outcomes, prune_result>>
    /\ UNCHANGED ci_env
    /\ UNCHANGED nonBuildVars

\* the running process prints a line: the callbacks log it and send a progress
\* event of level Info or Warn
ProcessOutput ==
    /\ pc \in {"docker_running", "pack_running"}
    /\ line_events < MaxLines
    /\ line_events' = line_events + 1
    /\ UNCHANGED <<pc, build, force_build, builders, canceled, image_exists,
                   workspace, cmds, clones, samples, error_logs, warning_logs,
                   error_events, closing, timed_out, canceled_in_exec, builder_idx,
                   exit_status, attempts, env_var_args, use_build_cache, outcomes,
                   prune_result, dockerfile_used_args, result>>
    /\ UNCHANGED dockerfile_on_disk
    /\ UNCHANGED ci_env
    /\ UNCHANGED nonBuildVars

\* BUILD_DURATION_TIMEOUT_MIN elapses while the process runs
Timeout ==
    /\ pc \in {"docker_running", "pack_running"}
    /\ ~timed_out
    /\ timed_out' = TRUE
    /\ UNCHANGED <<pc, build, force_build, builders, canceled, image_exists,
                   workspace, cmds, clones, samples, error_logs, warning_logs,
                   error_events, line_events, closing, canceled_in_exec,
                   builder_idx, exit_status, attempts, env_var_args,
                   use_build_cache, outcomes, prune_result, dockerfile_used_args, result>>
    /\ UNCHANGED dockerfile_on_disk
    /\ UNCHANGED ci_env
    /\ UNCHANGED nonBuildVars

\* build_image_with_docker: match exit_status (188-196)
DockerExitStatus(b, res) ==
    IF res.ok THEN BuildResult(b)
    ELSE IF IsKilled(res) THEN new_task_cancellation_requested
    ELSE BuildError("DockerCannotBuildContainerImage")

\* build_image_with_docker: exec_with_abort returns (153-196)
DockerFinish ==
    /\ pc = "docker_running"
    /\ \E res \in ExecWithAbortResults(canceled, timed_out) :
         Finish(DockerExitStatus(build, res))
    /\ UNCHANGED <<build, force_build, builders, canceled, image_exists, workspace,
                   cmds, clones, samples, error_logs, warning_logs, error_events,
                   line_events, closing, timed_out, canceled_in_exec, builder_idx,
                   exit_status, attempts, env_var_args, use_build_cache, outcomes,
                   prune_result, dockerfile_used_args>>
    /\ UNCHANGED dockerfile_on_disk
    /\ UNCHANGED ci_env
    /\ UNCHANGED nonBuildVars


\* build(): strategy selection, no Dockerfile path: build_image_with_buildpacks
\* up to its loop (645-655, 208-213)
BuildSelectBuildpacks ==
    /\ pc = "select"
    /\ ~UsesDockerfile(build)
    /\ builder_idx' = 1
    /\ exit_status' = CommandErrorNew([ok |-> FALSE, variant |-> "No builder names"])
    /\ pc' = "builder"
    /\ UNCHANGED <<build, force_build, builders, canceled, image_exists, workspace,
                   cmds, clones, samples, error_logs, warning_logs, error_events,
                   line_events, closing, timed_out, canceled_in_exec, attempts,
                   env_var_args, use_build_cache, outcomes, prune_result, dockerfile_used_args, result>>
    /\ UNCHANGED dockerfile_on_disk
    /\ UNCHANGED ci_env
    /\ UNCHANGED nonBuildVars

\* a mutant: a hint of any number of parts is taken
ValidLanguage_AnyParts(language) == TRUE

\* build_image_with_buildpacks: the hint is `builder` or `builder@version` (248-285)
ValidLanguage(language) ==
    ~IsSome(language) \/ Len(LanguageParts(Unwrap(language))) \in {1, 2}

\* build_image_with_buildpacks: one iteration up to the start of `pack build`
\* (215-299)
BuildpacksAttempt ==
    /\ pc = "builder"
    /\ IF ~ValidLanguage(build.buildpack_language)
         THEN /\ error_events' = error_events + 1
              /\ error_logs' = error_logs + 1
              /\ Finish(BuildError("BuildpackInvalidLanguageFormat"))
              /\ UNCHANGED <<cmds, attempts, timed_out>>
         ELSE \E procfile_worker \in BOOLEAN :
              /\ cmds' = Append(cmds, Command("pack",
                            BuildpacksArgs(use_build_cache, BuildContextPath, env_var_args,
                                           builders[builder_idx], build.buildpack_language,
                                           procfile_worker)))
              /\ attempts' = attempts + 1
              /\ timed_out' = FALSE
              /\ pc' = "pack_running"
              /\ UNCHANGED <<result, error_events, error_logs>>
    /\ UNCHANGED <<build, force_build, builders, canceled, image_exists, workspace,
                   clones, samples, warning_logs, line_events, closing,
                   canceled_in_exec, builder_idx, exit_status, env_var_args,
                   use_build_cache, outcomes, prune_result, dockerfile_used_args>>
    /\ UNCHANGED dockerfile_on_disk
    /\ UNCHANGED ci_env
    /\ UNCHANGED nonBuildVars

\* a mutant: the loop goes on after a builder succeeded
LoopEnds_NoBreak(res, idx, n) == idx = n

\* build_image_with_buildpacks: break on success, else the next builder (340-344)
LoopEnds(res, idx, n) == res.ok \/ idx = n

\* build_image_with_buildpacks: match exit_status (346-362)
BuildpacksExitStatus(b, res, builder_names) ==
    IF res.ok THEN BuildResult(b)
    ELSE IF IsKilled(res) THEN new_task_cancellation_requested
    ELSE new_buildpack_cannot_build_container_image(builder_names)

\* build_image_with_buildpacks: exec_with_abort returns; the loop goes on or
\* ends with the match on exit_status (300-362)
PackFinish ==
    /\ pc = "pack_running"
    /\ \E res \in ExecWithAbortResults(canceled, timed_out) :
         LET status == MapErrCommandErrorNew(res)
         IN  /\ exit_status' = status
             /\ outcomes' = Append(outcomes, res.variant)
             /\ IF LoopEnds(status, builder_idx, Len(builders))
                  THEN LET r == BuildpacksExitStatus(build, status, builders)
                       IN  /\ Finish(r)
                           /\ error_logs' =
                                error_logs + (IF r.tag = "BuildpackCannotBuildContainerImage"
                                                THEN 1 ELSE 0)
                           /\ UNCHANGED builder_idx
                  ELSE /\ builder_idx' = builder_idx + 1
                       /\ pc' = "builder"
                       /\ UNCHANGED <<result, error_logs>>
    /\ UNCHANGED <<build, force_build, builders, canceled, image_exists, workspace,
                   cmds, clones, samples, warning_logs, error_events, line_events,
                   closing, timed_out, canceled_in_exec, attempts, env_var_args,
                   use_build_cache, prune_result, dockerfile_used_args>>
    /\ UNCHANGED dockerfile_on_disk
    /\ UNCHANGED ci_env
    /\ UNCHANGED nonBuildVars

ClosingMessage_NoCancelMarker(r) == IF r.kind = "ok" THEN "built" ELSE "failed"

\* build(): the closing message (657-669)
ClosingMessage(r) ==
    IF r.kind = "ok" THEN "built"
    ELSE IF r.tag = "TaskCancellationRequested" THEN "canceled"
    ELSE "failed"

\* build(): the closing progress message and log, then the result (657-683)
BuildReport ==
    /\ pc = "report"
    /\ closing' = Append(closing, ClosingMessage(result))
    /\ pc' = "done"
    /\ UNCHANGED <<build, force_build, builders, canceled, image_exists, workspace,
                   cmds, clones, samples, error_logs, warning_logs, error_events,
                   line_events, timed_out, canceled_in_exec, builder_idx,
                   exit_status, attempts, env_var_args, use_build_cache, outcomes,
                   prune_result, dockerfile_used_args, result>>
    /\ UNCHANGED dockerfile_on_disk
    /\ UNCHANGED ci_env
    /\ UNCHANGED nonBuildVars

BuildPlatformNext ==
    \/ Cancel
    \/ BuildEntry
    \/ BuildCacheCheck
    \/ BuildWorkspace
    \/ BuildClone
    \/ BuildPrepare
    \/ BuildSelectDocker
    \/ BuildSelectBuildpacks
    \/ BuildpacksAttempt
    \/ ProcessOutput
    \/ Timeout
    \/ DockerFinish
    \/ PackFinish
    \/ BuildReport

\* ------------------------------------------------------------------------
\* EngineError (errors/mod.rs)
\* ------------------------------------------------------------------------

\* raw and safe messages given to the constructors
ErrorMessages == {"", "cannot connect", "token=s3cr3t"}

OptionOf(S) == {None} \cup {Some(x) : x \in S}

\* EngineError::new (132-152)
EngineErrorNew(tag, qovery_log_message, user_log_message, raw_message, raw_message_safe, hint_message) ==
    [tag |-> tag,
     qovery_log_message |-> qovery_log_message,
     user_log_message |-> user_log_message,
     raw_message |-> raw_message,
     raw_message_safe |-> raw_message_safe,
     hint_message |-> hint_message]

\* EngineError::new_unknown (177-196)
new_unknown(qovery_log_message, user_log_message, raw_message, raw_message_safe, hint_message) ==
    EngineErrorNew("Unknown", qovery_log_message, user_log_message,
                   raw_message, raw_message_safe, hint_message)

\* EngineError::new_unsupported_instance_type (207-223)
new_unsupported_instance_type(requested_instance_type, raw_message) ==
    \* the quotes around the instance type are left out of the text
    LET message == <<requested_instance_type, " instance type is not supported">>
    IN  EngineErrorNew("UnsupportedInstanceType", message, message,
                       Some(raw_message), Some(raw_message),
                       Some("Selected instance type is not supported, please check provider's documentation."))

\* EngineError::new_cannot_retrieve_cluster_config_file (231-243)
new_cannot_retrieve_cluster_config_file(raw_message) ==
    LET message == <<"Cannot retrieve Kubernetes instance type is not supported">>
    IN  EngineErrorNew("CannotRetrieveClusterConfigFile", message, message,
                       Some(raw_message), None, None)

\* EngineError::new_cannot_get_cluster_nodes (251-263)
new_cannot_get_cluster_nodes(raw_message) ==
    LET message == <<"Cannot get Kubernetes nodes">>
    IN  EngineErrorNew("CannotRetrieveClusterConfigFile", message, message,
                       Some(raw_message), None, None)

\* the hint of the two not-enough-resources errors (308, 337)
NotEnoughResourcesHint ==
    "Consider to add one more node or upgrade your nodes configuration. If not possible, pause or delete unused environments."

\* EngineError::new_cannot_deploy_not_enough_resources_available (274-310)
new_cannot_deploy_not_enough_resources_available(requested_ram_in_mib, free_ram_in_mib, requested_cpu, free_cpu) ==
    LET message ==
            <<"There is not enough resources on the cluster:">>
            \o (IF free_cpu > requested_cpu
                  THEN <<"\n", ToString(free_cpu), " CPU requested and only ",
                         ToString(requested_cpu), " CPU available">>
                  ELSE <<>>)
            \o (IF requested_ram_in_mib > free_ram_in_mib
                  THEN <<"\n", ToString(requested_ram_in_mib), "mib RAM requested and only ",
                         ToString(free_ram_in_mib), "mib RAM  available">>
                  ELSE <<>>)
    IN  EngineErrorNew("NotEnoughResourcesToDeployEnvironment", message, message,
                       None, None, Some(NotEnoughResourcesHint))

\* EngineError::new_cannot_deploy_not_enough_free_pods_available (318-339)
new_cannot_deploy_not_enough_free_pods_available(requested_pods, free_pods) ==
    LET message == <<"There is not enough free Pods (free ", ToString(free_pods), " VS ",
                     ToString(requested_pods), " required) on the cluster.">>
    IN  EngineErrorNew("NotEnoughResourcesToDeployEnvironment", message, message,
                       None, None, Some(NotEnoughResourcesHint))

\* the text message() gives when the error has no message
NoErrorMessageDefined == "no error message defined"

\* a mutant: the raw message is preferred
Message_RawFirst(e) ==
    IF IsSome(e.raw_message) THEN Unwrap(e.raw_message)
    ELSE IF IsSome(e.raw_message_safe) THEN Unwrap(e.raw_message_safe)
    ELSE NoErrorMessageDefined

\* a mutant: the raw message is never used
Message_SafeOnly(e) ==
    IF IsSome(e.raw_message_safe) THEN Unwrap(e.raw_message_safe)
    ELSE NoErrorMessageDefined

\* EngineError::message (97-108)
Message(e) ==
    IF IsSome(e.raw_message_safe) THEN Unwrap(e.raw_message_safe)
    ELSE IF IsSome(e.raw_message) THEN Unwrap(e.raw_message)
    ELSE NoErrorMessageDefined

Slots == {1, 2}

ErrorsInit ==
    /\ errors = [i \in Slots |-> None]
    /\ messages = [i \in Slots |-> None]
    /\ sites = [i \in Slots |-> "none"]
    /\ legacy_errors = [i \in Slots |-> None]

\* the error is kept by the caller in a free slot
Constructed(i, site, e) ==
    /\ errors' = [errors EXCEPT ![i] = Some(e)]
    /\ sites' = [sites EXCEPT ![i] = site]

NewUnknown ==
    \E i \in Slots, raw \in OptionOf(ErrorMessages), safe \in OptionOf(ErrorMessages) :
        /\ errors[i] = None
        /\ Constructed(i, "new_unknown", new_unknown(<<"log">>, <<"log">>, raw, safe, None))
        /\ UNCHANGED <<messages, legacy_errors>>
        /\ UNCHANGED nonErrorVars

NewUnsupportedInstanceType ==
    \E i \in Slots, raw \in ErrorMessages :
        /\ errors[i] = None
        /\ Constructed(i, "new_unsupported_instance_type", new_unsupported_instance_type("t2.nano", raw))
        /\ UNCHANGED <<messages, legacy_errors>>
        /\ UNCHANGED nonErrorVars

NewCannotRetrieveClusterConfigFile ==
    \E i \in Slots, raw \in ErrorMessages :
        /\ errors[i] = None
        /\ Constructed(i, "new_cannot_retrieve_cluster_config_file", new_cannot_retrieve_cluster_config_file(raw))
        /\ UNCHANGED <<messages, legacy_errors>>
        /\ UNCHANGED nonErrorVars

NewCannotGetClusterNodes ==
    \E i \in Slots, raw \in ErrorMessages :
        /\ errors[i] = None
        /\ Constructed(i, "new_cannot_get_cluster_nodes", new_cannot_get_cluster_nodes(raw))
        /\ UNCHANGED <<messages, legacy_errors>>
        /\ UNCHANGED nonErrorVars

\* amounts of a resource: requested and free
Amounts == {1, 2}

NewCannotDeployNotEnoughResourcesAvailable ==
    \E i \in Slots, requested_ram \in Amounts, free_ram \in Amounts,
       requested_cpu \in Amounts, free_cpu \in Amounts :
        /\ errors[i] = None
        /\ Constructed(i, "new_cannot_deploy_not_enough_resources_available",
                       new_cannot_deploy_not_enough_resources_available(
                           requested_ram, free_ram, requested_cpu, free_cpu))
        /\ UNCHANGED <<messages, legacy_errors>>
        /\ UNCHANGED nonErrorVars

NewCannotDeployNotEnoughFreePodsAvailable ==
    \E i \in Slots, requested_pods \in Amounts, free_pods \in Amounts :
        /\ errors[i] = None
        /\ Constructed(i, "new_cannot_deploy_not_enough_free_pods_available",
                       new_cannot_deploy_not_enough_free_pods_available(requested_pods, free_pods))
        /\ UNCHANGED <<messages, legacy_errors>>
        /\ UNCHANGED nonErrorVars

\* a caller reads the message of an error
CallMessage ==
    \E i \in Slots :
        /\ errors[i] # None
        /\ messages[i] = None
        /\ messages' = [messages EXCEPT ![i] = Some(Message(Unwrap(errors[i])))]
        /\ UNCHANGED <<errors, sites, legacy_errors>>
        /\ UNCHANGED nonErrorVars

to_legacy_engine_error_MessageOfError(e) ==
    [cause |-> "Internal", message |-> Some(Message(e))]

\* EngineError::to_legacy_engine_error (155-162): the cause is Internal and the
\* message is raw_message_safe; scope and execution id come from event_details
to_legacy_engine_error(e) == [cause |-> "Internal", message |-> e.raw_message_safe]

\* a caller converts an error it holds into a legacy error
CallToLegacyEngineError ==
    \E i \in Slots :
        /\ errors[i] # None
        /\ legacy_errors[i] = None
        /\ legacy_errors' = [legacy_errors EXCEPT
                                ![i] = Some(to_legacy_engine_error(Unwrap(errors[i])))]
        /\ UNCHANGED <<errors, sites, messages>>
        /\ UNCHANGED nonErrorVars

ErrorsNext ==
    \/ NewUnknown
    \/ NewUnsupportedInstanceType
    \/ NewCannotRetrieveClusterConfigFile
    \/ NewCannotGetClusterNodes
    \/ NewCannotDeployNotEnoughResourcesAvailable
    \/ NewCannotDeployNotEnoughFreePodsAvailable
    \/ CallMessage
    \/ CallToLegacyEngineError

\* ------------------------------------------------------------------------
\* retry::retry(delays, operation), as called in docker.rs and ecr.rs
\*
\* The driver runs the operation, and on OperationResult::Retry takes the
\* next delay of the iterator, sleeps and runs it again; when the iterator
\* has no delay left it returns Error::Operation with the error of that run.
\* A policy of n delays (`take(n)`) therefore allows n + 1 runs.
\* ------------------------------------------------------------------------

NoRetry == [tries |-> 0, delays |-> 0, status |-> "none", error |-> None]

\* retry::retry entered with an iterator of `delays` delays; current_try = 1
RetryStart(delays) == [tries |-> 1, delays |-> delays, status |-> "running", error |-> None]

\* the driver after one run of the operation returned res
RetryAfter(r, res) ==
    IF res.kind = "Ok" THEN [r EXCEPT !.status = "ok"]
    ELSE IF res.kind = "Retry" /\ r.delays > 0
      THEN [r EXCEPT !.tries = @ + 1, !.delays = @ - 1]
      ELSE [r EXCEPT !.status = "failed", !.error = Some(res.error)]

OperationOk == [kind |-> "Ok", error |-> [attempt |-> 0, message |-> ""]]

OperationRetry(e) == [kind |-> "Retry", error |-> e]

OperationErr(e) == [kind |-> "Err", error |-> e]

\* the error a failed command or API call of run `attempt` gave
ErrorOf(attempt, message) == [attempt |-> attempt, message |-> message]

\* a mutant: a failed `docker tag` ends the retry at once
TagOperation_FailFast(exec_ok, attempt) ==
    IF exec_ok THEN OperationOk
    ELSE OperationErr(ErrorOf(attempt, "docker tag"))

\* docker_tag_and_push_image: the operation of the tag retry (188-194)
TagOperation(exec_ok, attempt) ==
    IF exec_ok THEN OperationOk
    ELSE OperationRetry(ErrorOf(attempt, "docker tag"))

\* docker_tag_and_push_image: the operation of the push retry (207-229)
PushOperation(exec_ok, attempt) ==
    IF exec_ok THEN OperationOk
    ELSE OperationRetry(ErrorOf(attempt, "docker push"))

\* a mutant: a create call that succeeds ends the creation retry
CreateRepositoryOperation_OkOnCreate(describe, create_ok, attempt) ==
    IF describe = "Ok" \/ create_ok THEN OperationOk
    ELSE OperationRetry(ErrorOf(attempt, "create error"))

\* create_repository: the operation of the creation retry (199-269)
CreateRepositoryOperation(describe, create_ok, attempt) ==
    IF describe = "Ok" THEN OperationOk
    ELSE OperationRetry(ErrorOf(attempt, IF create_ok THEN "repository created" ELSE "create error"))

\* ------------------------------------------------------------------------
\* ECR container registry: pull() and push() (ecr.rs), with
\* docker_tag_and_push_image (docker.rs)
\* ------------------------------------------------------------------------

RegistryNoResult ==
    [kind |-> "none", tag |-> "", pull |-> "", registry_url |-> None, error |-> None]

\* Ok(PullResult::None)
PullResultNone ==
    [kind |-> "ok", tag |-> "", pull |-> "None", registry_url |-> None, error |-> None]

\* Ok(PullResult::Some(image)) with image.registry_url = Some(dest)
PullResultSome(dest) ==
    [kind |-> "ok", tag |-> "", pull |-> "Some", registry_url |-> Some(dest), error |-> None]

\* Ok(PushResult { image }) with image.registry_url = Some(dest)
PushResult(dest) ==
    [kind |-> "ok", tag |-> "", pull |-> "", registry_url |-> Some(dest), error |-> None]

\* Err(EngineError::new_<site>(.., error))
RegistryError(tag, error) ==
    [kind |-> "err", tag |-> tag, pull |-> "", registry_url |-> None, error |-> error]

\* Repository::repository_uri of the repository of the image
RepositoryUri == "123.dkr.ecr.eu-west-3.amazonaws.com/app"

\* format!("{}:{}", repository_uri, image.tag) (564, 580)
Dest == <<RepositoryUri, ":", ImageTag>>

\* a mutant: the retention of production everywhere
RetentionPolicyInDays_Production(test_cluster) == ProductionRetentionDays

\* create_repository: retention_policy_in_days (294-297)
RetentionPolicyInDays(test_cluster) ==
    IF test_cluster THEN TestClusterRetentionDays ELSE ProductionRetentionDays

RegistryInit ==
    /\ rpc = "start"
    /\ rop \in {"pull", "push"}
    /\ force_push \in BOOLEAN
    /\ rop = "pull" => ~force_push
    /\ repo_exists \in BOOLEAN
    /\ remote_image \in BOOLEAN
    /\ remote_image => repo_exists
    /\ policy_days = None
    /\ is_test_cluster \in BOOLEAN
    /\ rcalls = <<>>
    /\ retry = NoRetry
    /\ repo_creation_counter = 0
    /\ image_seen = None
    /\ logged_in = None
    /\ repository_seen = None
    /\ rresult = RegistryNoResult

RegistryReturn(r) == rresult' = r /\ rpc' = "done"

\* what a lookup of something that exists may answer: the API call may fail
Found(exists) == IF exists THEN BOOLEAN ELSE {FALSE}

\* a mutant: pull() goes on whether or not the image was found
PullHasNoImage_Never(found) == FALSE

\* pull(): !self.does_image_exists(image) (510)
PullHasNoImage(found) == ~found

\* pull(): does_image_exists, and the "no image" result (506-535)
PullImageCheck ==
    /\ rpc = "start"
    /\ rop = "pull"
    /\ rcalls' = Append(rcalls, "describe_images")
    /\ \E found \in Found(remote_image) :
         /\ image_seen' = Some(found)
         /\ IF PullHasNoImage(found) THEN RegistryReturn(PullResultNone)
            ELSE rpc' = "login" /\ UNCHANGED rresult
    /\ UNCHANGED <<rop, force_push, repo_exists, remote_image, policy_days,
                   is_test_cluster, retry, repo_creation_counter>>
    /\ UNCHANGED logged_in
    /\ UNCHANGED repository_seen
    /\ UNCHANGED nonRegistryVars

\* a mutant: the exit status of `docker login` is ignored
ExecDockerLogin_IgnoreExit(token_ok, login_ok) ==
    IF ~token_ok THEN "ContainerRegistryGetCredentialsError" ELSE "Ok"

\* exec_docker_login: get_credentials()?, then `docker login` (395-419)
ExecDockerLogin(token_ok, login_ok) ==
    IF ~token_ok THEN "ContainerRegistryGetCredentialsError"
    ELSE IF ~login_ok THEN "ClientInvalidCloudProviderCredentials"
    ELSE "Ok"

\* exec_docker_login()? (560, 571); then the repository is looked up or, for
\* a forced push, created (562, 573-577)
Login ==
    /\ \/ rpc = "login"
       \/ rpc = "start" /\ rop = "push"
    /\ \E token_ok \in BOOLEAN, login_ok \in BOOLEAN :
         LET login == ExecDockerLogin(token_ok, login_ok)
         IN  /\ rcalls' = IF token_ok
                            THEN rcalls \o <<"get_authorization_token", "docker login">>
                            ELSE Append(rcalls, "get_authorization_token")
             /\ logged_in' = Some(token_ok /\ login_ok)
             /\ IF login # "Ok"
                  THEN /\ RegistryReturn(RegistryError(login, None))
                       /\ UNCHANGED retry
                  ELSE IF rop = "push" /\ force_push
                    THEN /\ rpc' = "create_repository"
                         /\ retry' = RetryStart(CreateRepositoryRetryDelays)
                         /\ UNCHANGED rresult
                    ELSE /\ rpc' = "get_or_create_repository"
                         /\ UNCHANGED <<rresult, retry>>
    /\ UNCHANGED <<rop, force_push, repo_exists, remote_image, policy_days,
                   is_test_cluster, repo_creation_counter>>
    /\ UNCHANGED image_seen
    /\ UNCHANGED repository_seen
    /\ UNCHANGED nonRegistryVars

\* get_or_create_repository: the existence check (334-351)
GetOrCreateRepository ==
    /\ rpc = "get_or_create_repository"
    /\ rcalls' = Append(rcalls, "describe_repositories")
    /\ \E found \in Found(repo_exists) :
         /\ repository_seen' = Some([found |-> found, existed |-> repo_exists])
         /\ IF found
              THEN rpc' = "have_repository" /\ UNCHANGED retry
              ELSE rpc' = "create_repository" /\ retry' = RetryStart(CreateRepositoryRetryDelays)
    /\ UNCHANGED <<rop, force_push, repo_exists, remote_image, policy_days,
                   is_test_cluster, repo_creation_counter, rresult>>
    /\ UNCHANGED image_seen
    /\ UNCHANGED logged_in
    /\ UNCHANGED nonRegistryVars

\* what describe_repositories may answer in create_repository
DescribeAnswers(exists) ==
    IF exists THEN {"Ok", "RepositoryNotFound", "Other"} ELSE {"RepositoryNotFound", "Other"}

RepositoryExistsAfter_Replaced(exists, create_ok, effective) == create_ok /\ effective

\* create_repository: the create_repository call of the API adds the
\* repository when it succeeds and leaves what exists in place (255-262)
RepositoryExistsAfter(exists, create_ok, effective) == exists \/ (create_ok /\ effective)

\* create_repository: one run of the operation of the creation retry:
\* describe_repositories and, when it failed, create_repository (199-291)
CreateRepositoryAttempt ==
    /\ rpc = "create_repository"
    /\ \E describe \in DescribeAnswers(repo_exists) :
         IF describe = "Ok"
           THEN /\ rcalls' = Append(rcalls, "describe_repositories")
                /\ retry' = RetryAfter(retry, CreateRepositoryOperation(describe, FALSE, retry.tries))
                /\ rpc' = "lifecycle_policy"
                /\ UNCHANGED <<repo_exists, repo_creation_counter, rresult>>
           ELSE \E create_ok \in (IF repo_exists THEN {FALSE} ELSE BOOLEAN), effective \in BOOLEAN :
                /\ rcalls' = rcalls \o <<"describe_repositories", "create_repository">>
                /\ repo_creation_counter' =
                     repo_creation_counter + (IF describe = "RepositoryNotFound" THEN 1 ELSE 0)
                /\ repo_exists' = RepositoryExistsAfter(repo_exists, create_ok, effective)
                /\ LET after == RetryAfter(retry, CreateRepositoryOperation(describe, create_ok, retry.tries))
                   IN  /\ retry' = after
                       /\ IF after.status = "failed"
                            THEN RegistryReturn(RegistryError(
                                   "ContainerRegistryNamespaceCreationError", after.error))
                            ELSE UNCHANGED <<rpc, rresult>>
    /\ UNCHANGED <<rop, force_push, remote_image, policy_days, is_test_cluster>>
    /\ UNCHANGED image_seen
    /\ UNCHANGED logged_in
    /\ UNCHANGED repository_seen
    /\ UNCHANGED nonRegistryVars

\* create_repository: the lifecycle policy and the final lookup (293-331)
PutLifecyclePolicy ==
    /\ rpc = "lifecycle_policy"
    /\ \E policy_ok \in BOOLEAN, found \in Found(repo_exists) :
         IF ~policy_ok
           THEN /\ rcalls' = Append(rcalls, "put_lifecycle_policy")
                /\ RegistryReturn(RegistryError(
                     "ContainerRegistryRepositorySetLifecyclePolicyError", None))
                /\ UNCHANGED policy_days
           ELSE /\ rcalls' = rcalls \o <<"put_lifecycle_policy", "describe_repositories">>
                /\ policy_days' = Some(RetentionPolicyInDays(is_test_cluster))
                \* get_repository(image).expect("cannot get repository")
                /\ rpc' = IF found THEN "have_repository" ELSE "panicked"
                /\ UNCHANGED rresult
    /\ UNCHANGED <<rop, force_push, repo_exists, remote_image, is_test_cluster,
                   retry, repo_creation_counter>>
    /\ UNCHANGED image_seen
    /\ UNCHANGED logged_in
    /\ UNCHANGED repository_seen
    /\ UNCHANGED nonRegistryVars

\* pull(): pull_image, `docker pull <dest>` (564-567, 149-173)
PullImage ==
    /\ rpc = "have_repository"
    /\ rop = "pull"
    /\ rcalls' = Append(rcalls, "docker pull")
    /\ \E pull_ok \in BOOLEAN :
         IF pull_ok THEN RegistryReturn(PullResultSome(Dest))
         ELSE RegistryReturn(RegistryError("DockerPullImageError", None))
    /\ UNCHANGED <<rop, force_push, repo_exists, remote_image, policy_days,
                   is_test_cluster, retry, repo_creation_counter>>
    /\ UNCHANGED image_seen
    /\ UNCHANGED logged_in
    /\ UNCHANGED repository_seen
    /\ UNCHANGED nonRegistryVars

\* a mutant: the image is uploaded again although it was found
SkipUpload_Never(force, found) == FALSE

\* push(): !force_push && self.does_image_exists(image) (584)
SkipUpload(force, found) == ~force /\ found

\* push(): the image is already there and the push is not forced (579-613)
PushImageCheck ==
    /\ rpc = "have_repository"
    /\ rop = "push"
    /\ IF force_push
         THEN /\ rpc' = "tag"
              /\ retry' = RetryStart(TagRetryDelays)
              /\ UNCHANGED <<rcalls, rresult, image_seen>>
         ELSE /\ rcalls' = Append(rcalls, "describe_images")
              /\ \E found \in Found(remote_image) :
                   /\ image_seen' = Some(found)
                   /\ IF SkipUpload(force_push, found)
                        THEN RegistryReturn(PushResult(Dest)) /\ UNCHANGED retry
                        ELSE /\ rpc' = "tag"
                             /\ retry' = RetryStart(TagRetryDelays)
                             /\ UNCHANGED rresult
    /\ UNCHANGED <<rop, force_push, repo_exists, remote_image, policy_days,
                   is_test_cluster, repo_creation_counter>>
    /\ UNCHANGED logged_in
    /\ UNCHANGED repository_seen
    /\ UNCHANGED nonRegistryVars

\* docker_tag_and_push_image: one run of `docker tag` (187-203)
TagAttempt ==
    /\ rpc = "tag"
    /\ rcalls' = Append(rcalls, "docker tag")
    /\ \E exec_ok \in BOOLEAN :
         LET after == RetryAfter(retry, TagOperation(exec_ok, retry.tries))
         IN  CASE after.status = "ok" ->
                    /\ rpc' = "push"
                    /\ retry' = RetryStart(PushRetryDelays)
                    /\ UNCHANGED rresult
               [] after.status = "failed" ->
                    /\ retry' = after
                    /\ RegistryReturn(RegistryError("DockerPushImageError", after.error))
               [] OTHER ->
                    /\ retry' = after
                    /\ UNCHANGED <<rpc, rresult>>
    /\ UNCHANGED <<rop, force_push, repo_exists, remote_image, policy_days,
                   is_test_cluster, repo_creation_counter>>
    /\ UNCHANGED image_seen
    /\ UNCHANGED logged_in
    /\ UNCHANGED repository_seen
    /\ UNCHANGED nonRegistryVars

\* docker_tag_and_push_image: one run of `docker push` (205-243)
PushAttempt ==
    /\ rpc = "push"
    /\ rcalls' = Append(rcalls, "docker push")
    /\ \E exec_ok \in BOOLEAN :
         LET after == RetryAfter(retry, PushOperation(exec_ok, retry.tries))
         IN  /\ retry' = after
             /\ CASE after.status = "ok" ->
                       /\ remote_image' = TRUE
                       /\ RegistryReturn(PushResult(Dest))
                  [] after.status = "failed" ->
                       /\ RegistryReturn(RegistryError("DockerPushImageError", after.error))
                       /\ UNCHANGED remote_image
                  [] OTHER ->
                       UNCHANGED <<rpc, rresult, remote_image>>
    /\ UNCHANGED <<rop, force_push, repo_exists, policy_days, is_test_cluster,
                   repo_creation_counter>>
    /\ UNCHANGED image_seen
    /\ UNCHANGED logged_in
    /\ UNCHANGED repository_seen
    /\ UNCHANGED nonRegistryVars

RegistryNext ==
    \/ PullImageCheck
    \/ Login
    \/ GetOrCreateRepository
    \/ CreateRepositoryAttempt
    \/ PutLifecyclePolicy
    \/ PullImage
    \/ PushImageCheck
    \/ TagAttempt
    \/ PushAttempt

\* the task is cancelled while push() runs; push() and docker_tag_and_push_image
\* take no cancellation predicate (ecr.rs 570, docker.rs 172-178)
TaskCanceled ==
    /\ rpc \notin {"off", "done"}
    /\ canceled_at = None
    /\ canceled_at' = Some(Len(rcalls))
    /\ UNCHANGED nonTaskVars

\* a push() whose task may be cancelled at any moment
PushTaskNext ==
    \/ TaskCanceled
    \/ Login
    \/ GetOrCreateRepository
    \/ CreateRepositoryAttempt
    \/ PutLifecyclePolicy
    \/ PushImageCheck
    \/ TagAttempt
    \/ PushAttempt

\* ------------------------------------------------------------------------
\* Redis versions
\* ------------------------------------------------------------------------

\* the numbers requested versions are made of
VersionNumbers == {"0", "1", "5", "6", "9"}

\* the texts of n numbers separated by dots
RECURSIVE DottedVersions(_)
DottedVersions(n) ==
    IF n = 1 THEN {<<d>> : d \in VersionNumbers}
    ELSE {v \o <<".", d>> : v \in DottedVersions(n - 1), d \in VersionNumbers}

RequestedVersions == UNION {DottedVersions(n) : n \in 1..MaxVersionNumbers}

\* the text of numbers joined by dots
RECURSIVE JoinDotted(_)
JoinDotted(numbers) ==
    IF Len(numbers) = 1 THEN Head(numbers)
    ELSE Head(numbers) \o <<".">> \o JoinDotted(Tail(numbers))

\* the key a requested version is looked up with: major.minor.patch, major.minor
\* or major, as far as the request gives them
VersionKey(version_to_check) ==
    LET numbers == SplitAt(version_to_check, ".")
    IN  JoinDotted(SubSeq(numbers, 1, IF Len(numbers) > 3 THEN 3 ELSE Len(numbers)))

\* get_supported_version_to_use: the version the table has for the request,
\* or the error that names the database and the request
get_supported_version_to_use(database_name, all_supported_versions, version_to_check) ==
    IF VersionKey(version_to_check) \in DOMAIN all_supported_versions
    THEN [ok |-> TRUE, value |-> all_supported_versions[VersionKey(version_to_check)]]
    ELSE [ok |-> FALSE,
          value |-> <<database_name, " ">> \o version_to_check \o <<" version is not supported">>]

\* get_self_hosted_redis_version
get_self_hosted_redis_version(requested_version) ==
    get_supported_version_to_use("Redis",
        (<<"6">> :> <<"6", ".", "0", ".", "9">>) @@ (<<"6", ".", "0">> :> <<"6", ".", "0", ".", "9">>),
        requested_version)

\* a mutant: the table of managed versions has the self-hosted version for "6"
get_managed_redis_version_SelfHosted(requested_version) ==
    get_supported_version_to_use("Elasticache",
        (<<"6">> :> <<"6", ".", "0", ".", "9">>) @@ (<<"5">> :> <<"5", ".", "0", ".", "6">>),
        requested_version)

\* get_managed_redis_version (443-451)
get_managed_redis_version(requested_version) ==
    get_supported_version_to_use("Elasticache",
        (<<"6">> :> <<"6", ".", "x">>) @@ (<<"5">> :> <<"5", ".", "0", ".", "6">>),
        requested_version)

\* get_redis_version (435-441)
get_redis_version(requested, is_managed) ==
    IF is_managed
    THEN get_managed_redis_version(requested)
    ELSE get_self_hosted_redis_version(requested)

VersionInit ==
    /\ version_requested \in RequestedVersions
    /\ is_managed_service \in BOOLEAN
    /\ version_result = None

\* a caller asks for the version to use
GetRedisVersion ==
    /\ version_result = None
    /\ version_requested # <<>>
    /\ version_result' = Some(get_redis_version(version_requested, is_managed_service))
    /\ UNCHANGED <<version_requested, is_managed_service>>
    /\ UNCHANGED nonVersionVars

\* ------------------------------------------------------------------------
\* Lifecycle hooks of the ECR registry
\* ------------------------------------------------------------------------

HooksInit ==
    registry_hooks = [t \in 1..MaxThreads |-> [calls |-> <<>>, returned |-> <<>>, logs |-> 0]]

\* the thread can call a hook: it has not panicked
CanCallHook(t) ==
    /\ Len(registry_hooks[t].calls) < MaxHookCalls
    /\ \A i \in DOMAIN registry_hooks[t].returned : registry_hooks[t].returned[i] # "panic"

\* a hook logs its line and then returns Ok(()) or panics
HookCalled(t, hook, outcome) ==
    registry_hooks' = [registry_hooks EXCEPT ![t] =
                          [calls |-> Append(@.calls, hook),
                           returned |-> Append(@.returned, outcome),
                           logs |-> @.logs + 1]]

\* unimplemented!(): the thread panics
Unimplemented == "panic"

\* ECR::on_create (457-466)
EcrOnCreate ==
    \E t \in 1..MaxThreads :
        /\ CanCallHook(t)
        /\ HookCalled(t, "on_create", "Ok")
        /\ UNCHANGED nonHookVars

\* ECR::on_create_error (468-478)
EcrOnCreateError ==
    \E t \in 1..MaxThreads :
        /\ CanCallHook(t)
        /\ HookCalled(t, "on_create_error", Unimplemented)
        /\ UNCHANGED nonHookVars

\* ECR::on_delete (480-489)
EcrOnDelete ==
    \E t \in 1..MaxThreads :
        /\ CanCallHook(t)
        /\ HookCalled(t, "on_delete", Unimplemented)
        /\ UNCHANGED nonHookVars

\* ECR::on_delete_error (491-500)
EcrOnDeleteError ==
    \E t \in 1..MaxThreads :
        /\ CanCallHook(t)
        /\ HookCalled(t, "on_delete_error", Unimplemented)
        /\ UNCHANGED nonHookVars

HooksNext ==
    \/ EcrOnCreate
    \/ EcrOnCreateError
    \/ EcrOnDelete
    \/ EcrOnDeleteError

\* ------------------------------------------------------------------------
\* Service lifecycle: RedisAws
\* ------------------------------------------------------------------------

Threads == 1..MaxThreads

ServiceIds == 1..MaxServices

\* cloud_provider::service::Action, the variants the lifecycle is run for
Actions == {"Create", "Pause", "Delete"}

\* a thread that applies no action
NoService ==
    [state |-> "None", id |-> 0, action |-> "Nothing", logs |-> 0,
     error_hooks |-> 0, hook_logs |-> 0, hook_progress_errors |-> 0]

ServiceInit == service = [t \in Threads |-> NoService]

\* the lifecycle of the thread is under way
Applying(s) == s.state \in {"Idle", "PreCheck", "Executing", "PostCheck", "Failed"}

\* RedisAws::new: a service with the id and the action it is given (39-69)
RedisAwsNew ==
    \E t \in Threads, id \in ServiceIds, action \in Actions :
        /\ service[t].state = "None"
        /\ service' = [service EXCEPT ![t] =
                          [NoService EXCEPT !.state = "Idle", !.id = id, !.action = action]]
        /\ UNCHANGED nonServiceVars

\* the lifecycle: Idle -> PreCheck
LifecycleStart ==
    \E t \in Threads :
        /\ service[t].state = "Idle"
        /\ service' = [service EXCEPT ![t].state = "PreCheck"]
        /\ UNCHANGED nonServiceVars

\* the lifecycle: PreCheck -> Executing, or Failed
LifecyclePreCheck ==
    \E t \in Threads, ok \in BOOLEAN :
        /\ service[t].state = "PreCheck"
        /\ service' = [service EXCEPT ![t].state = IF ok THEN "Executing" ELSE "Failed"]
        /\ UNCHANGED nonServiceVars

\* print_action: one log line that names the hook
PrintAction(s) == [s EXCEPT !.logs = @ + 1]

\* on_create / on_pause / on_delete: print_action, then the result of the
\* long task (309-323, 352-366, 390-404)
OnAction(s, ok) ==
    [PrintAction(s) EXCEPT !.state = IF ok THEN "PostCheck" ELSE "Failed"]

\* on_create_error / on_pause_error / on_delete_error: print_action and
\* Ok(()) (336-347, 373-385, 411-422); the typed error is then returned
OnActionError(s) ==
    [PrintAction(s) EXCEPT !.state = "ReturnedError", !.error_hooks = @ + 1,
                           !.hook_logs = @ + 1]

\* Create::on_create (309-323)
OnCreate ==
    \E t \in Threads, ok \in BOOLEAN :
        /\ service[t].state = "Executing"
        /\ service[t].action = "Create"
        /\ service' = [service EXCEPT ![t] = OnAction(@, ok)]
        /\ UNCHANGED nonServiceVars

\* Create::on_create_check: check_domains (325-333)
OnCreateCheck ==
    \E t \in Threads, ok \in BOOLEAN :
        /\ service[t].state = "PostCheck"
        /\ service[t].action = "Create"
        /\ service' = [service EXCEPT ![t].state = IF ok THEN "Succeeded" ELSE "Failed"]
        /\ UNCHANGED nonServiceVars

\* Create::on_create_error (336-347)
OnCreateError ==
    \E t \in Threads :
        /\ service[t].state = "Failed"
        /\ service[t].action = "Create"
        /\ service' = [service EXCEPT ![t] = OnActionError(@)]
        /\ UNCHANGED nonServiceVars

\* Pause::on_pause (352-366)
OnPause ==
    \E t \in Threads, ok \in BOOLEAN :
        /\ service[t].state = "Executing"
        /\ service[t].action = "Pause"
        /\ service' = [service EXCEPT ![t] = OnAction(@, ok)]
        /\ UNCHANGED nonServiceVars

\* Pause::on_pause_check: Ok(()) (368-370)
OnPauseCheck ==
    \E t \in Threads :
        /\ service[t].state = "PostCheck"
        /\ service[t].action = "Pause"
        /\ service' = [service EXCEPT ![t].state = "Succeeded"]
        /\ UNCHANGED nonServiceVars

\* Pause::on_pause_error (373-385)
OnPauseError ==
    \E t \in Threads :
        /\ service[t].state = "Failed"
        /\ service[t].action = "Pause"
        /\ service' = [service EXCEPT ![t] = OnActionError(@)]
        /\ UNCHANGED nonServiceVars

\* Delete::on_delete (390-404)
OnDelete ==
    \E t \in Threads, ok \in BOOLEAN :
        /\ service[t].state = "Executing"
        /\ service[t].action = "Delete"
        /\ service' = [service EXCEPT ![t] = OnAction(@, ok)]
        /\ UNCHANGED nonServiceVars

\* Delete::on_delete_check: Ok(()) (406-408)
OnDeleteCheck ==
    \E t \in Threads :
        /\ service[t].state = "PostCheck"
        /\ service[t].action = "Delete"
        /\ service' = [service EXCEPT ![t].state = "Succeeded"]
        /\ UNCHANGED nonServiceVars

\* Delete::on_delete_error (411-422)
OnDeleteError ==
    \E t \in Threads :
        /\ service[t].state = "Failed"
        /\ service[t].action = "Delete"
        /\ service' = [service EXCEPT ![t] = OnActionError(@)]
        /\ UNCHANGED nonServiceVars

ServiceNext ==
    \/ RedisAwsNew
    \/ LifecycleStart
    \/ LifecyclePreCheck
    \/ OnCreate
    \/ OnCreateCheck
    \/ OnCreateError
    \/ OnPause
    \/ OnPauseCheck
    \/ OnPauseError
    \/ OnDelete
    \/ OnDeleteCheck
    \/ OnDeleteError

\* ------------------------------------------------------------------------
\* Build workspaces of build() calls that run at the same time
\* ------------------------------------------------------------------------

Calls == 1..MaxCalls

ExecutionIds == 1..MaxExecutions

\* get_repository_build_root_path: the directory of the execution id and of
\* the image name (365-377)
GetRepositoryBuildRootPath(execution_id, image_name) == <<execution_id, "build", image_name>>

WorkspacePaths == {GetRepositoryBuildRootPath(e, ImageName) : e \in ExecutionIds}

NoCall == [pc |-> "none", path |-> <<>>]

WorkspaceInit ==
    /\ calls = [c \in Calls |-> NoCall]
    /\ directories \in [WorkspacePaths -> {[exists |-> e, cloned_by |-> 0] : e \in BOOLEAN}]

\* build(): a forced build is called in a context; repository_root_path (480)
WorkspaceBuildCalled ==
    \E c \in Calls, e \in ExecutionIds :
        /\ calls[c].pc = "none"
        /\ calls' = [calls EXCEPT ![c] =
                        [pc |-> "remove", path |-> GetRepositoryBuildRootPath(e, ImageName)]]
        /\ UNCHANGED directories
        /\ UNCHANGED nonWorkspaceVars

\* build(): remove_dir_all of the directory if it exists (513-517)
WorkspaceRemove ==
    \E c \in Calls :
        /\ calls[c].pc = "remove"
        /\ directories' = [directories EXCEPT ![calls[c].path] =
                                [exists |-> FALSE, cloned_by |-> 0]]
        /\ calls' = [calls EXCEPT ![c].pc = "clone"]
        /\ UNCHANGED nonWorkspaceVars

\* build(): git::clone_at_commit into the directory (523-539)
WorkspaceClone ==
    \E c \in Calls, clone_ok \in BOOLEAN :
        /\ calls[c].pc = "clone"
        /\ IF CloneFailed(clone_ok)
             THEN /\ calls' = [calls EXCEPT ![c].pc = "done"]
                  /\ UNCHANGED directories
             ELSE /\ calls' = [calls EXCEPT ![c].pc = "building"]
                  /\ directories' = [directories EXCEPT ![calls[c].path] =
                                          [exists |-> TRUE, cloned_by |-> c]]
        /\ UNCHANGED nonWorkspaceVars

\* build(): the build process has ended (636-655)
WorkspaceBuildEnds ==
    \E c \in Calls :
        /\ calls[c].pc = "building"
        /\ calls' = [calls EXCEPT ![c].pc = "done"]
        /\ UNCHANGED directories
        /\ UNCHANGED nonWorkspaceVars

WorkspaceNext ==
    \/ WorkspaceBuildCalled
    \/ WorkspaceRemove
    \/ WorkspaceClone
    \/ WorkspaceBuildEnds

\* ------------------------------------------------------------------------
\* The disk check of the build platform: check_docker_space_usage_and_clean
\* and docker_prune_images, one prune command at a time
\* ------------------------------------------------------------------------

\* the sizes sysinfo may report for a disk: available and total space
DiskSizes ==
    {[available |-> a, total |-> t] : a \in 0..MaxDiskSize, t \in 0..MaxDiskSize}

\* a call in position p that has run no prune command yet
NoDiskCheck(p) ==
    [pc |-> p, prunes |-> <<>>, failed |-> {}, errored_commands |-> <<>>,
     warnings |-> 0, infos |-> 0, returned |-> None]

DiskCheckInit ==
    /\ docker_path_size_info \in {d \in DiskSizes : d.available <= d.total}
    /\ disk_check = NoDiskCheck("check")

\* check_docker_space_usage_and_clean (739-778): the percentage is an integer
\* division that panics when the total space is zero
CheckDockerSpaceUsageAndClean ==
    /\ disk_check.pc = "check"
    /\ IF docker_path_size_info.total = 0
         THEN disk_check' = [disk_check EXCEPT !.pc = "panicked"]
         ELSE IF NeedsPurge(docker_path_size_info)
                THEN disk_check' = [disk_check EXCEPT !.pc = "prune", !.warnings = @ + 1]
                ELSE disk_check' = [disk_check EXCEPT !.pc = "done", !.infos = @ + 1,
                                                      !.returned = Some([ok |-> TRUE,
                                                                         message |-> <<>>])]
    /\ UNCHANGED docker_path_size_info
    /\ UNCHANGED nonDiskVars

PruneLoopEnds_OnFailure(ran, command_ok) == ran = Len(AllPrunesCommands) \/ ~command_ok

\* docker_prune_images: the for loop over all_prunes_commands has no break
\* (789-794)
PruneLoopEnds(ran, command_ok) == ran = Len(AllPrunesCommands)

\* docker_prune_images: one iteration of the loop runs the next command and
\* records it when it failed (789-794)
DockerPruneCommand ==
    /\ disk_check.pc = "prune"
    /\ \E command_ok \in BOOLEAN :
          LET i == Len(disk_check.prunes) + 1
          IN  disk_check' =
                [disk_check EXCEPT
                    !.prunes = Append(@, PruneCommands[i]),
                    !.failed = IF command_ok THEN @ ELSE @ \cup {i},
                    !.errored_commands =
                        IF command_ok THEN @
                        ELSE Append(@, AllPrunesCommands[i][1] \o <<" ", "error">>),
                    !.pc = IF PruneLoopEnds(i, command_ok) THEN "prune_return" ELSE "prune"]
    /\ UNCHANGED docker_path_size_info
    /\ UNCHANGED nonDiskVars

\* docker_prune_images: Err with the joined errored commands, or Ok (796-803)
DockerPruneImagesReturn ==
    /\ disk_check.pc = "prune_return"
    /\ disk_check' =
          [disk_check EXCEPT
              !.pc = "done",
              !.returned = IF Len(disk_check.errored_commands) > 0
                             THEN Some([ok |-> FALSE, message |-> disk_check.errored_commands])
                             ELSE Some([ok |-> TRUE, message |-> <<>>])]
    /\ UNCHANGED docker_path_size_info
    /\ UNCHANGED nonDiskVars

DiskCheckNext ==
    \/ CheckDockerSpaceUsageAndClean
    \/ DockerPruneCommand
    \/ DockerPruneImagesReturn

\* ------------------------------------------------------------------------
\* The cache lookup of the build platform: has_cache
\* ------------------------------------------------------------------------

\* the previous builds build.to_previous_build may find, by commit
ParentBuilds == 1..MaxParentBuilds

\* CacheResult::Hit, Miss(parent_build) and MissWithoutParentBuild, as records
\* of one shape
CacheResultHit == [variant |-> "Hit", parent |-> 0]

CacheResultMiss(parent_build) == [variant |-> "Miss", parent |-> parent_build]

CacheResultMissWithoutParentBuild == [variant |-> "MissWithoutParentBuild", parent |-> 0]

\* a call in position p: workspace_ok says whether the workspace directory
\* could be made, previous is Some(Err), Some(Ok(None)) or Some(Ok(Some(b)))
\* of to_previous_build, written None for the error
NoCacheCheck(p, workspace_ok, previous) ==
    [pc |-> p, workspace_ok |-> workspace_ok, previous |-> previous,
     stdout_lines |-> 0, stderr_lines |-> 0, status |-> "none",
     result |-> CacheResultMissWithoutParentBuild,
     returned |-> [kind |-> "none", value |-> CacheResultMissWithoutParentBuild, tag |-> "none"]]

\* to_previous_build: Err ("err"), Ok(None) ("none") or Ok(Some(parent))
PreviousBuilds == {[kind |-> "err", parent |-> 0], [kind |-> "none", parent |-> 0]}
                      \cup {[kind |-> "some", parent |-> b] : b \in ParentBuilds}

CacheCheckInit ==
    cache_check \in {NoCacheCheck("entry", w, Some(p)) : w \in BOOLEAN, p \in PreviousBuilds}

\* has_cache: the workspace path and the previous build (419-428)
HasCacheLookup ==
    /\ cache_check.pc = "entry"
    /\ LET previous == Unwrap(cache_check.previous)
           err(tag) == [kind |-> "err", value |-> CacheResultMissWithoutParentBuild, tag |-> tag]
       IN  IF ~cache_check.workspace_ok
             THEN cache_check' = [cache_check EXCEPT
                                     !.pc = "done",
                                     !.returned = err("CannotGetWorkspaceDirectory")]
             ELSE IF previous.kind = "err"
               THEN cache_check' = [cache_check EXCEPT
                                       !.pc = "done",
                                       !.returned = err("BuilderGetBuildError")]
               ELSE IF previous.kind = "none"
                 THEN cache_check' = [cache_check EXCEPT
                                         !.pc = "done",
                                         !.returned = [kind |-> "ok",
                                                       value |-> CacheResultMissWithoutParentBuild,
                                                       tag |-> "none"]]
                 ELSE cache_check' = [cache_check EXCEPT
                                         !.pc = "query",
                                         !.result = CacheResultMiss(previous.parent)]
    /\ UNCHANGED nonCacheVars

\* has_cache: the stdout callback of `docker images -q` (435)
HasCacheStdoutLine ==
    /\ cache_check.pc = "query"
    /\ cache_check.stdout_lines < MaxQueryLines
    /\ cache_check' = [cache_check EXCEPT !.stdout_lines = @ + 1, !.result = CacheResultHit]
    /\ UNCHANGED nonCacheVars

\* has_cache: the stderr callback of `docker images -q` logs the line (436)
HasCacheStderrLine ==
    /\ cache_check.pc = "query"
    /\ cache_check.stderr_lines < MaxQueryLines
    /\ cache_check' = [cache_check EXCEPT !.stderr_lines = @ + 1]
    /\ UNCHANGED nonCacheVars

\* how exec_with_timeout may end
QueryStatuses == {"ok", "failed", "timeout"}

HasCacheResult_MissOnFailure(check, status) ==
    IF status = "ok" THEN check.result ELSE CacheResultMiss(Unwrap(check.previous).parent)

\* has_cache: `let _ = cmd.exec_with_timeout(..)` drops the status (433-439)
HasCacheResult(check, status) == check.result

\* has_cache: the command ends and Ok(result) is returned (433-439)
HasCacheQueryEnds ==
    /\ cache_check.pc = "query"
    /\ \E status \in QueryStatuses :
          cache_check' = [cache_check EXCEPT
                             !.pc = "done",
                             !.status = status,
                             !.returned = [kind |-> "ok",
                                           value |-> HasCacheResult(cache_check, status),
                                           tag |-> "none"]]
    /\ UNCHANGED nonCacheVars

CacheNext ==
    \/ HasCacheLookup
    \/ HasCacheStdoutLine
    \/ HasCacheStderrLine
    \/ HasCacheQueryEnds

\* ------------------------------------------------------------------------
\* The listeners of the services: impl Listen for LocalDocker, ECR, RedisAws
\* ------------------------------------------------------------------------

ListeningServices == {"LocalDocker", "ECR", "RedisAws"}

\* the listeners the caller may register
Listeners == 1..MaxListeners

\* the operations of a service that take &self and read its listeners
OperationsOf(s) ==
    CASE s = "LocalDocker" -> {"build", "has_cache"}
      [] s = "ECR" -> {"pull", "push"}
      [] s = "RedisAws" -> {"on_create", "on_pause", "on_delete"}

NoListenCall == [service |-> "none", operation |-> "none"]

\* LocalDocker::new and ECR::new start with vec![] (local_docker.rs:45,
\* ecr.rs:56); RedisAws::new is given its listeners (redis.rs:51, 66)
ListenInit ==
    /\ listeners \in {[s \in ListeningServices |->
                          IF s = "RedisAws" THEN given ELSE <<>>] :
                        given \in {<<>>} \cup {<<l>> : l \in Listeners}}
    /\ last_call = NoListenCall

AddListener_AtFront(list, listener) == <<listener>> \o list

\* add_listener: self.listeners.push(listener)
AddListener(list, listener) == Append(list, listener)

\* add_listener is called on a service
AddListenerCalled ==
    \E s \in ListeningServices, listener \in Listeners :
        /\ Len(listeners[s]) < MaxListeners
        /\ listeners' = [listeners EXCEPT ![s] = AddListener(@, listener)]
        /\ last_call' = [service |-> s, operation |-> "add_listener"]
        /\ UNCHANGED nonListenVars

\* an operation of a service borrows &self.listeners (ListenersHelper::new) or
\* clones the list (redis.rs:328) and leaves the list of the service as it is
OperationCalled ==
    \E s \in ListeningServices :
        \E operation \in OperationsOf(s) :
            /\ last_call' = [service |-> s, operation |-> operation]
            /\ UNCHANGED listeners
            /\ UNCHANGED nonListenVars

ListenNext ==
    \/ AddListenerCalled
    \/ OperationCalled

\* ------------------------------------------------------------------------
\* Specifications
\* ------------------------------------------------------------------------

ListenOff ==
    /\ listeners = <<>>
    /\ last_call = NoListenCall

CacheOff ==
    cache_check = NoCacheCheck("off", TRUE, None)

\* a component that is not running
BuildPlatformOff ==
    /\ pc = "off"
    /\ build = [dockerfile_path |-> None, buildpack_language |-> None,
                environment_variables |-> <<>>]
    /\ force_build = FALSE
    /\ builders = BuilderList(1)
    /\ canceled = FALSE
    /\ image_exists = FALSE
    /\ workspace = "absent"
    /\ cmds = <<>>
    /\ clones = 0
    /\ samples = <<>>
    /\ error_logs = 0
    /\ warning_logs = 0
    /\ error_events = 0
    /\ line_events = 0
    /\ closing = <<>>
    /\ timed_out = FALSE
    /\ canceled_in_exec = FALSE
    /\ builder_idx = 1
    /\ exit_status = [ok |-> FALSE, variant |-> "CommandError"]
    /\ attempts = 0
    /\ outcomes = <<>>
    /\ env_var_args = <<>>
    /\ use_build_cache = TRUE
    /\ prune_result = None
    /\ dockerfile_used_args = {}
    /\ dockerfile_on_disk = None
    /\ ci_env = FALSE
    /\ result = NoResult

ErrorsOff == ErrorsInit

ServiceOff == ServiceInit

WorkspaceOff ==
    /\ calls = <<>>
    /\ directories = <<>>

TaskOff == canceled_at = None

HooksOff == registry_hooks = <<>>

VersionOff ==
    /\ version_requested = <<>>
    /\ is_managed_service = FALSE
    /\ version_result = None

DiskOff ==
    /\ docker_path_size_info = [available |-> 0, total |-> 1]
    /\ disk_check = NoDiskCheck("off")

RegistryOff ==
    /\ rpc = "off"
    /\ rop = "pull"
    /\ force_push = FALSE
    /\ repo_exists = FALSE
    /\ remote_image = FALSE
    /\ policy_days = None
    /\ is_test_cluster = FALSE
    /\ rcalls = <<>>
    /\ retry = NoRetry
    /\ repo_creation_counter = 0
    /\ image_seen = None
    /\ logged_in = None
    /\ repository_seen = None
    /\ rresult = RegistryNoResult

\* build() with the Dockerfile strategy
DockerfileStrategyNext ==
    \/ Cancel
    \/ BuildEntry
    \/ BuildCacheCheck
    \/ BuildWorkspace
    \/ BuildClone
    \/ BuildPrepare
    \/ BuildSelectDocker
    \/ ProcessOutput
    \/ Timeout
    \/ DockerFinish
    \/ BuildReport

\* one build() call with a Dockerfile at any path
InitDockerfilePath == DockerfilePathInit /\ ErrorsOff /\ RegistryOff /\ ServiceOff /\ WorkspaceOff /\ TaskOff /\ HooksOff /\ VersionOff /\ DiskOff /\ CacheOff /\ ListenOff

SpecDockerfilePath == InitDockerfilePath /\ [][DockerfileStrategyNext]_vars

\* one build() call with a Dockerfile and any environment variables
InitEnvironment == EnvironmentInit /\ ErrorsOff /\ RegistryOff /\ ServiceOff /\ WorkspaceOff /\ TaskOff /\ HooksOff /\ VersionOff /\ DiskOff /\ CacheOff /\ ListenOff

SpecEnvironment == InitEnvironment /\ [][DockerfileStrategyNext]_vars

\* one build() call of a LocalDocker build platform
InitBuild == BuildPlatformInit /\ ErrorsOff /\ RegistryOff /\ ServiceOff /\ WorkspaceOff /\ TaskOff /\ HooksOff /\ VersionOff /\ DiskOff /\ CacheOff /\ ListenOff

SpecBuild == InitBuild /\ [][BuildPlatformNext]_vars

\* EngineErrors are constructed and their messages read
InitErrors == BuildPlatformOff /\ ErrorsInit /\ RegistryOff /\ ServiceOff /\ WorkspaceOff /\ TaskOff /\ HooksOff /\ VersionOff /\ DiskOff /\ CacheOff /\ ListenOff

SpecErrors == InitErrors /\ [][ErrorsNext]_vars

\* one pull() or push() call of an ECR registry
InitRegistry == BuildPlatformOff /\ ErrorsOff /\ RegistryInit /\ ServiceOff /\ WorkspaceOff /\ TaskOff /\ HooksOff /\ VersionOff /\ DiskOff /\ CacheOff /\ ListenOff

SpecRegistry == InitRegistry /\ [][RegistryNext]_vars

\* lifecycle actions applied to RedisAws services by the threads of the caller
InitService == BuildPlatformOff /\ ErrorsOff /\ RegistryOff /\ ServiceInit /\ WorkspaceOff /\ TaskOff /\ HooksOff /\ VersionOff /\ DiskOff /\ CacheOff /\ ListenOff

SpecService == InitService /\ [][ServiceNext]_vars

\* the arguments of a push() of a new image, outside test clusters
PushInit == RegistryInit /\ rop = "push" /\ ~remote_image /\ ~is_test_cluster

\* one push() call of an ECR registry in a task that may be cancelled
InitPushTask ==
    BuildPlatformOff /\ ErrorsOff /\ PushInit /\ ServiceOff /\ WorkspaceOff /\ TaskOff /\ HooksOff
    /\ VersionOff /\ DiskOff /\ CacheOff /\ ListenOff

SpecPushTask == InitPushTask /\ [][PushTaskNext]_vars

\* threads that call the lifecycle hooks of an ECR registry
InitHooks ==
    BuildPlatformOff /\ ErrorsOff /\ RegistryOff /\ ServiceOff /\ WorkspaceOff /\ TaskOff /\ HooksInit
    /\ VersionOff /\ DiskOff /\ CacheOff /\ ListenOff

SpecHooks == InitHooks /\ [][HooksNext]_vars

\* one call of get_redis_version
InitVersion ==
    BuildPlatformOff /\ ErrorsOff /\ RegistryOff /\ ServiceOff /\ WorkspaceOff /\ TaskOff /\ HooksOff
    /\ VersionInit /\ DiskOff /\ CacheOff /\ ListenOff

SpecVersion == InitVersion /\ [][GetRedisVersion]_vars

\* one call of check_docker_space_usage_and_clean on a disk of any size
InitDiskCheck ==
    BuildPlatformOff /\ ErrorsOff /\ RegistryOff /\ ServiceOff /\ WorkspaceOff /\ TaskOff /\ HooksOff
    /\ VersionOff /\ DiskCheckInit /\ CacheOff /\ ListenOff

SpecDiskCheck == InitDiskCheck /\ [][DiskCheckNext]_vars

\* build() calls that run at the same time on the workspaces of their contexts
InitWorkspace == BuildPlatformOff /\ ErrorsOff /\ RegistryOff /\ ServiceOff /\ WorkspaceInit /\ TaskOff /\ HooksOff /\ VersionOff /\ DiskOff /\ CacheOff /\ ListenOff

SpecWorkspace == InitWorkspace /\ [][WorkspaceNext]_vars

\* one call of has_cache
InitCache ==
    BuildPlatformOff /\ ErrorsOff /\ RegistryOff /\ ServiceOff /\ WorkspaceOff /\ TaskOff /\ HooksOff
    /\ VersionOff /\ DiskOff /\ CacheCheckInit /\ ListenOff

SpecCache == InitCache /\ [][CacheNext]_vars

\* services with their listeners, and the calls made on them
InitListen ==
    BuildPlatformOff /\ ErrorsOff /\ RegistryOff /\ ServiceOff /\ WorkspaceOff /\ TaskOff /\ HooksOff
    /\ VersionOff /\ DiskOff /\ CacheOff /\ ListenInit

SpecListen == InitListen /\ [][ListenNext]_vars

\* ------------------------------------------------------------------------
\* Properties
\* ------------------------------------------------------------------------

Count(seq, x) == Cardinality({i \in DOMAIN seq : seq[i] = x})

\* the `docker build` and `pack build` commands run so far
DockerBuilds == SelectSeq(cmds, LAMBDA c : c.binary = "docker" /\ c.args[1] = T("build"))

PackBuilds == SelectSeq(cmds, LAMBDA c : c.binary = "pack")

\* the values that follow a flag in the arguments of a command
ValuesOf(flag, args) ==
    LET at == {i \in 1..(Len(args) - 1) : args[i] = T(flag)}
    IN  [n \in 1..Cardinality(at) |->
            args[1 + CHOOSE i \in at : Cardinality({j \in at : j < i}) = n - 1]]

\* build() has its result
Returned == pc \in {"report", "done"}

\* C1: if is_task_canceled becomes true while the build process runs, build()
\* returns an error with Tag TaskCancellationRequested, in both strategies.
\* The buildpacks strategy loses the Killed variant (map_err at 338) and
\* reports a failed buildpacks build.
C1_CancelDuringBuild ==
    (Returned /\ canceled_in_exec) =>
        (result.kind = "err" /\ result.tag = "TaskCancellationRequested")

\* C2 as stated: with force_build = false and the image present, build()
\* returns Ok with the unchanged Build and runs no clone and no external process.
C2_NoProcessAtAll ==
    (pc = "done" /\ ~force_build /\ image_exists) =>
        (result = BuildResult(build) /\ cmds = <<>> /\ clones = 0)

\* C2: with force_build = false, the image present and no cancellation seen at
\* entry, build() returns Ok with the unchanged Build, without a clone and
\* without a build process; the one external process is `docker image inspect`.
C2_CacheShortCircuit ==
    (pc = "done" /\ ~force_build /\ image_exists /\ ~samples[1].value) =>
        /\ result = BuildResult(build)
        /\ cmds = <<ImageInspect>>
        /\ clones = 0
        /\ closing = <<>>

C2_Witness ==
    /\ pc = "done"
    /\ ~force_build
    /\ image_exists
    /\ result.kind = "ok"
    /\ cmds = <<ImageInspect>>

\* C3: the builders are tried one after another in list order; the first that
\* succeeds ends the build with Ok and no later builder is tried; when all
\* fail the error names every configured builder.
C3_BuilderFallback ==
    (Returned /\ outcomes # <<>>) =>
        LET n == Len(builders)
            k == Len(outcomes)
            tried == [i \in 1..Len(PackBuilds) |-> ValuesOf("-B", PackBuilds[i].args)[1][1]]
        IN  /\ k <= n
            /\ attempts = k
            /\ tried = SubSeq(builders, 1, k)
            /\ \A j \in 1..(k - 1) : outcomes[j] # "Ok"
            /\ outcomes[k] = "Ok" => result = BuildResult(build)
            /\ outcomes[k] # "Ok" =>
                 /\ k = n
                 /\ result.kind = "err"
                 /\ result.builders = builders

C3_Witness ==
    /\ pc = "done"
    /\ Len(builders) = 3
    /\ outcomes = <<"ExitStatusError", "Ok">>
    /\ result.kind = "ok"

\* C7: every failure of build() has sent exactly one progress event of level
\* Error and written exactly one log of level Error when it is returned.
C7_OneErrorEventOneErrorLog ==
    (pc = "done" /\ result.kind = "err") => (error_events = 1 /\ error_logs = 1)

\* the effective Dockerfile path: the -f argument without the workspace prefix
EffectivePath(cmd) ==
    LET f == ValuesOf("-f", cmd.args)[1]
        prefix == RepositoryRootPath \o <<"/">> \o GitRootPath \o <<"/">>
    IN  SubSeq(f, Len(prefix) + 1, Len(f))

DefaultDockerfilePaths == {<<>>, <<".">>, <<"/">>, <<"/", ".">>, <<".", "/">>, Dockerfile}

\* C8 as stated: the six default spellings give "Dockerfile", every other
\* input is used unchanged.
C8_VerbatimOtherwise ==
    \A i \in 1..Len(DockerBuilds) :
        LET given == Unwrap(build.dockerfile_path)
        IN  EffectivePath(DockerBuilds[i]) =
              IF given \in DefaultDockerfilePaths THEN Dockerfile ELSE given

\* text[i..j] is the text without its leading and trailing whitespace
IsStripped(text, i, j) ==
    /\ \A m \in 1..Len(text) : (m < i \/ m > j) => IsWhitespace(text[m])
    /\ i <= j => (~IsWhitespace(text[i]) /\ ~IsWhitespace(text[j]))
    /\ i > j => (i = Len(text) + 1 /\ j = Len(text))

\* C8: the path is stripped of leading and trailing whitespace; the six
\* default spellings of the stripped path give "Dockerfile", every other path
\* is used in its stripped form.
C8_DockerfilePathNormalization ==
    \A n \in 1..Len(DockerBuilds) :
        LET given == Unwrap(build.dockerfile_path)
        IN  \E i \in 1..(Len(given) + 1), j \in 0..Len(given) :
                /\ IsStripped(given, i, j)
                /\ EffectivePath(DockerBuilds[n]) =
                     IF SubSeq(given, i, j) \in DefaultDockerfilePaths
                       THEN Dockerfile
                       ELSE SubSeq(given, i, j)

C8_Witness ==
    /\ pc = "docker_running"
    /\ build.dockerfile_path = Some(<<" ", "a", " ">>)
    /\ EffectivePath(DockerBuilds[1]) = <<"a">>

\* the --build-arg values of a `docker build`
BuildArgs(cmd) == ValuesOf("--build-arg", cmd.args)

InSeq(x, seq) == \E i \in DOMAIN seq : seq[i] = x

\* C9 as stated: a variable the Dockerfile does not use is not passed, one it
\* uses is passed as KEY=VALUE unless its key is the sentinel, and the
\* sentinel key is never passed.
C9_SentinelNeverForwarded ==
    \A i \in 1..Len(DockerBuilds) :
        LET evs == build.environment_variables
            passed == BuildArgs(DockerBuilds[i])
        IN  /\ \A n \in DOMAIN evs :
                 evs[n].key \notin dockerfile_used_args =>
                     ~InSeq(<<evs[n].key, "=", evs[n].value>>, passed)
            /\ \A n \in DOMAIN evs :
                 (evs[n].key \in dockerfile_used_args /\ evs[n].key # DisableBuildCacheKey) =>
                     InSeq(<<evs[n].key, "=", evs[n].value>>, passed)
            /\ \A n \in DOMAIN passed : passed[n][1] # DisableBuildCacheKey

\* spellings of "true" among the values
TrueSpellings == {"true", "TRUE", "True"}

\* C9: the --build-arg list is, in order, KEY=VALUE for every variable whose
\* key the Dockerfile uses, except the sentinel key with a value spelling
\* "true"; the sentinel key with another value is passed like any variable.
C9_EnvVarForwarding ==
    \A i \in 1..Len(DockerBuilds) :
        LET forwarded ==
              SelectSeq(build.environment_variables,
                        LAMBDA ev : /\ ev.key \in dockerfile_used_args
                                    /\ ~(ev.key = DisableBuildCacheKey /\ ev.value \in TrueSpellings))
        IN  BuildArgs(DockerBuilds[i]) =
              [n \in 1..Len(forwarded) |-> <<forwarded[n].key, "=", forwarded[n].value>>]

C9_Witness ==
    /\ pc = "docker_running"
    /\ build.environment_variables =
         <<[key |-> DisableBuildCacheKey, value |-> "TRUE"], [key |-> "PORT", value |-> "false"]>>
    /\ dockerfile_used_args = EnvKeys
    /\ BuildArgs(DockerBuilds[1]) = << <<"PORT", "=", "false">> >>

\* C5: message() of an error that has a safe message is that safe message, so
\* two errors with the same safe message give the same message() whatever
\* their raw messages are.
C5_SafeMessageWins ==
    \A i \in Slots, j \in Slots :
        (/\ messages[i] # None
         /\ messages[j] # None
         /\ IsSome(Unwrap(errors[i]).raw_message_safe)
         /\ Unwrap(errors[i]).raw_message_safe = Unwrap(errors[j]).raw_message_safe) =>
            /\ messages[i] = Unwrap(errors[i]).raw_message_safe
            /\ messages[i] = messages[j]

C5_Witness ==
    /\ messages[1] = Some("cannot connect")
    /\ messages[2] = Some("cannot connect")
    /\ Unwrap(errors[1]).raw_message = Some("token=s3cr3t")
    /\ Unwrap(errors[2]).raw_message = None

\* the message message() is to give by priority: safe, raw, fallback
ByPriority(e) ==
    CASE e.raw_message_safe # None -> e.raw_message_safe
      [] e.raw_message_safe = None /\ e.raw_message # None -> e.raw_message
      [] OTHER -> Some(NoErrorMessageDefined)

\* C6 as stated: message() follows the priority safe, raw, fallback and is
\* never empty.
C6_NeverEmpty ==
    \A i \in Slots :
        messages[i] # None =>
            /\ messages[i] = ByPriority(Unwrap(errors[i]))
            /\ messages[i] # Some("")

\* C6: message() follows the priority safe, raw, fallback; it is empty only
\* when the message it selects was given empty.
C6_MessagePriority ==
    \A i \in Slots :
        messages[i] # None =>
            /\ messages[i] = ByPriority(Unwrap(errors[i]))
            /\ messages[i] = Some("") =>
                 \/ Unwrap(errors[i]).raw_message_safe = Some("")
                 \/ Unwrap(errors[i]).raw_message = Some("")

C6_Witness ==
    /\ messages[1] = Some("cannot connect")
    /\ Unwrap(errors[1]).raw_message_safe = None
    /\ messages[2] = Some(NoErrorMessageDefined)

\* the runs of the retry that ended without success, by the command it ran
ExhaustedRuns ==
    CASE rresult.tag = "ContainerRegistryNamespaceCreationError" -> Count(rcalls, "create_repository")
      [] Unwrap(rresult.error).message = "docker tag" -> Count(rcalls, "docker tag")
      [] OTHER -> Count(rcalls, "docker push")

\* the number of delays of the policy of the retry that ended without success
ExhaustedPolicy ==
    CASE rresult.tag = "ContainerRegistryNamespaceCreationError" -> CreateRepositoryRetryDelays
      [] Unwrap(rresult.error).message = "docker tag" -> TagRetryDelays
      [] OTHER -> PushRetryDelays

RetryExhausted == rpc = "done" /\ rresult.kind = "err" /\ rresult.error # None

\* C4 as stated: an operation that always signals retry is run exactly as
\* many times as the cap of the policy (5, 5, 24).
C4_AttemptsEqualCap ==
    RetryExhausted => ExhaustedRuns = ExhaustedPolicy

\* C4: an operation that always signals retry is run once and then once more
\* per delay of the policy (6, 6, 25 runs), and the failure returned carries
\* the error of the last run.
C4_RetryExhaustion ==
    RetryExhausted =>
        /\ ExhaustedRuns = ExhaustedPolicy + 1
        /\ Unwrap(rresult.error).attempt = ExhaustedRuns

C4_Witness ==
    /\ RetryExhausted
    /\ Unwrap(rresult.error).message = "docker push"
    /\ Count(rcalls, "docker push") = 6
    /\ Count(rcalls, "docker tag") = 2

\* C10: pull() of an image that is not in the registry returns
\* Ok(PullResult::None) and does nothing but the lookup of the image: no
\* login, no repository lookup or creation, no docker pull.
C10_PullAbsentImage ==
    (rop = "pull" /\ ~remote_image) =>
        /\ rcalls \in {<<>>, <<"describe_images">>}
        /\ rresult.kind # "err"
        /\ rpc \in {"start", "done"}
        /\ rpc = "done" => rresult = PullResultNone

C10_Witness ==
    /\ rop = "pull"
    /\ ~remote_image
    /\ rpc = "done"
    /\ rresult = PullResultNone
    /\ rcalls = <<"describe_images">>

\* C11: a push that is not forced and finds the image in the registry runs
\* no `docker tag` and no `docker push` and returns Ok with registry_url =
\* <repository_uri>:<tag>; a forced push never looks the image up and its
\* success always comes from a tag and a push.
C11_PushSkipsExistingImage ==
    rop = "push" =>
        /\ (~force_push /\ image_seen = Some(TRUE)) =>
              /\ rpc = "done"
              /\ rresult = PushResult(Dest)
              /\ Count(rcalls, "docker tag") = 0
              /\ Count(rcalls, "docker push") = 0
        /\ force_push =>
              /\ image_seen = None
              /\ Count(rcalls, "describe_images") = 0
              /\ (rpc = "done" /\ rresult.kind = "ok") =>
                    /\ Count(rcalls, "docker tag") >= 1
                    /\ Count(rcalls, "docker push") >= 1
                    /\ rresult = PushResult(Dest)

C11_Witness ==
    /\ rop = "push"
    /\ ~force_push
    /\ remote_image
    /\ image_seen = Some(TRUE)
    /\ rpc = "done"
    /\ rresult = PushResult(Dest)

\* calls on the repository and transfers of the image
RepositoryOrTransferCalls ==
    {"describe_repositories", "create_repository", "put_lifecycle_policy",
     "docker tag", "docker push", "docker pull"}

\* C12: a push(), and a pull() of an image that exists, logs in exactly once
\* and before any call on the repository and any tag, push or pull; a login
\* that fails ends the call with an error at once: it is not retried and no
\* repository or transfer call is made.
C12_LoginOnceAndFirst ==
    /\ Count(rcalls, "get_authorization_token") <= 1
    /\ Count(rcalls, "docker login") <= 1
    /\ \A i \in DOMAIN rcalls :
         rcalls[i] \in RepositoryOrTransferCalls =>
             /\ logged_in = Some(TRUE)
             /\ \E j \in 1..(i - 1) : rcalls[j] = "docker login"
    /\ (rpc = "done" /\ (rop = "push" \/ image_seen = Some(TRUE))) =>
         Count(rcalls, "get_authorization_token") = 1
    /\ logged_in = Some(FALSE) =>
         /\ rpc = "done"
         /\ rresult.kind = "err"
         /\ rresult.tag \in {"ContainerRegistryGetCredentialsError",
                              "ClientInvalidCloudProviderCredentials"}
         /\ rcalls[Len(rcalls)] \in {"get_authorization_token", "docker login"}

C12_Witness ==
    /\ rop = "pull"
    /\ image_seen = Some(TRUE)
    /\ logged_in = Some(FALSE)
    /\ rcalls = <<"describe_images", "get_authorization_token", "docker login">>
    /\ rresult.tag = "ClientInvalidCloudProviderCredentials"

\* get_or_create_repository has returned the repository to pull() or push()
RepositoryReturned ==
    \/ rpc \in {"have_repository", "tag", "push"}
    \/ /\ rpc = "done"
       /\ \/ Count(rcalls, "docker pull") > 0
          \/ Count(rcalls, "docker tag") > 0
          \/ rop = "push" /\ image_seen # None

\* C13: get_or_create_repository looks the repository up first; a repository
\* it finds is returned without a create call and without a lifecycle-policy
\* call; a repository that is absent is created, then given the retention
\* policy (1 day in a test cluster, 365 days otherwise), and is returned only
\* after the policy call succeeded.
C13_GetOrCreateRepository ==
    repository_seen # None =>
        LET seen == Unwrap(repository_seen)
        IN  /\ rcalls[CHOOSE i \in DOMAIN rcalls :
                         rcalls[i] \notin {"describe_images", "get_authorization_token",
                                           "docker login"}] = "describe_repositories"
            /\ seen.found =>
                  /\ Count(rcalls, "create_repository") = 0
                  /\ Count(rcalls, "put_lifecycle_policy") = 0
                  /\ policy_days = None
            /\ (~seen.found /\ RepositoryReturned) =>
                  /\ Count(rcalls, "put_lifecycle_policy") = 1
                  /\ policy_days = Some(IF is_test_cluster THEN 1 ELSE 365)
                  /\ \A i \in DOMAIN rcalls, j \in DOMAIN rcalls :
                       (rcalls[i] = "create_repository" /\ rcalls[j] = "put_lifecycle_policy")
                           => i < j
                  /\ ~seen.existed => Count(rcalls, "create_repository") >= 1

C13_Witness ==
    /\ repository_seen = Some([found |-> FALSE, existed |-> FALSE])
    /\ rpc = "have_repository"
    /\ is_test_cluster
    /\ policy_days = Some(1)
    /\ Count(rcalls, "create_repository") = 2

\* the tag retry or the push retry of docker_tag_and_push_image gave up
TagExhausted ==
    rpc = "done" /\ rresult.error # None /\ Unwrap(rresult.error).message = "docker tag"

PushExhausted ==
    rpc = "done" /\ rresult.error # None /\ Unwrap(rresult.error).message = "docker push"

\* every `docker tag` is run before every `docker push`, and none is run
\* after the tag retry gave up
TagBeforePush ==
    /\ \A i \in DOMAIN rcalls, j \in DOMAIN rcalls :
         (rcalls[i] = "docker tag" /\ rcalls[j] = "docker push") => i < j
    /\ TagExhausted => Count(rcalls, "docker push") = 0
    /\ rpc = "push" => Count(rcalls, "docker tag") >= 1

\* C14 as stated: the tag step is retried, then the push step, a failed push
\* never runs the tag again, an exhausted tag step leaves no push; and the
\* push retry has a larger attempt cap than the tag retry.
C14_PushCapLarger ==
    /\ TagBeforePush
    /\ PushExhausted => Count(rcalls, "docker push") > TagRetryDelays + 1

\* C14: the tag step is retried, then the push step, a failed push never
\* runs the tag again, an exhausted tag step leaves no push; both retries
\* have the same attempt cap, one run and one more per delay of take(5).
C14_TagThenPush ==
    /\ TagBeforePush
    /\ Count(rcalls, "docker tag") <= TagRetryDelays + 1
    /\ Count(rcalls, "docker push") <= TagRetryDelays + 1
    /\ TagExhausted => Count(rcalls, "docker tag") = TagRetryDelays + 1
    /\ PushExhausted => Count(rcalls, "docker push") = TagRetryDelays + 1

C14_Witness ==
    /\ PushExhausted
    /\ Count(rcalls, "docker tag") = 3
    /\ Count(rcalls, "docker push") = 6
    /\ rcalls[Len(rcalls) - 6] = "docker tag"

\* C15 as stated: a Dockerfile path selects the Dockerfile strategy, no path
\* the buildpacks strategy; a Dockerfile that is not on disk fails build()
\* with the Dockerfile-not-found error and no external process was run.
C15_NoProcessBeforeNotFound ==
    /\ DockerBuilds # <<>> => IsSome(build.dockerfile_path)
    /\ PackBuilds # <<>> => ~IsSome(build.dockerfile_path)
    /\ dockerfile_on_disk = Some(FALSE) =>
         /\ pc = "done"
         /\ result = BuildError("DockerCannotFindDockerfile")
         /\ cmds = <<>>

\* C15: a Dockerfile path selects the Dockerfile strategy, no path the
\* buildpacks strategy; a Dockerfile that is not on disk fails build() with
\* the Dockerfile-not-found error and no build process (docker build, pack
\* build) was run: the processes run before are `docker image inspect` of
\* the cache check and the docker prune commands of the disk check.
C15_StrategyAndMissingDockerfile ==
    /\ DockerBuilds # <<>> => IsSome(build.dockerfile_path)
    /\ PackBuilds # <<>> => ~IsSome(build.dockerfile_path)
    /\ dockerfile_on_disk # None => IsSome(build.dockerfile_path)
    /\ dockerfile_on_disk = Some(FALSE) =>
         /\ pc = "done"
         /\ result = BuildError("DockerCannotFindDockerfile")
         /\ DockerBuilds = <<>>
         /\ PackBuilds = <<>>
         /\ \A i \in DOMAIN cmds :
              \/ cmds[i].args[1] = <<"image">> /\ cmds[i].args[2] = <<"inspect">>
              \/ cmds[i].args[2] = <<"prune">>

C15_Witness ==
    /\ dockerfile_on_disk = Some(FALSE)
    /\ result = BuildError("DockerCannotFindDockerfile")
    /\ Len(cmds) = 5

C17_EndToEnd ==
    LET pack == PackBuilds[Len(PackBuilds)]
    IN  ( /\ Returned
          /\ result.kind = "ok"
          /\ build.dockerfile_path = None
          /\ build.buildpack_language = Some(<<"heroku/python", "@", "3">>)
          /\ PackBuilds # <<>>
          /\ ValuesOf("--default-process", pack.args) = <<T("worker")>> )
        => /\ clones = 1
           /\ ValuesOf("-b", pack.args) = <<T("heroku/python")>>
           /\ InSeq(NameWithTag, pack.args)
           /\ InSeq(NameWithLatestTag, pack.args)

\* C20: a build process (docker build, pack build) is started only after the
\* one clone of the call has succeeded; if the clone fails, build() returns
\* the clone error and no build process is started.
C20_CloneBeforeBuild ==
    /\ (DockerBuilds # <<>> \/ PackBuilds # <<>>) => (clones = 1 /\ workspace = "cloned")
    /\ clones <= 1
    /\ (clones = 1 /\ workspace # "cloned") =>
         /\ pc = "done"
         /\ result = BuildError("BuilderCloneRepositoryError")
         /\ DockerBuilds = <<>>
         /\ PackBuilds = <<>>

C20_Witness ==
    /\ clones = 1
    /\ workspace # "cloned"
    /\ ~image_exists
    /\ result = BuildError("BuilderCloneRepositoryError")

\* C18: when a step of a lifecycle action has failed and the error is
\* returned, the matching error hook has run exactly once and has emitted a
\* log and a progress error event. The hooks of RedisAws log only.
C18_ErrorHookOnceWithLogAndEvent ==
    \A t \in Threads :
        /\ service[t].state = "ReturnedError" =>
             /\ service[t].error_hooks = 1
             /\ service[t].hook_logs = 1
             /\ service[t].hook_progress_errors = 1
        /\ service[t].state # "ReturnedError" => service[t].error_hooks = 0

\* C19: two threads never apply actions to the same Service id at the same
\* time. RedisAws::new takes any id and the hooks take no lock.
C19_NoOverlapOnServiceId ==
    \A t1, t2 \in Threads :
        (t1 # t2 /\ Applying(service[t1]) /\ Applying(service[t2])) =>
            service[t1].id # service[t2].id

\* C21: while a build is between its clone and the end of its build process,
\* its workspace holds its own clone: no other build() call that runs at the
\* same time has removed it or cloned into it. build() takes no lock on the
\* directory, and two calls of one execution id build in the same one.
C21_WorkspaceOwned ==
    \A c \in Calls :
        calls[c].pc = "building" =>
            directories[calls[c].path] = [exists |-> TRUE, cloned_by |-> c]

\* the runs of a retried operation (tag, push, repository creation) made after
\* the task was cancelled
RetriedRunsAfterCancel ==
    {i \in (Unwrap(canceled_at) + 1)..Len(rcalls) :
        rcalls[i] \in {"docker tag", "docker push", "create_repository"}}

\* C22: once the task is cancelled, the retry loops of push() start no further
\* attempt: at most the attempt in flight at the cancellation is made after
\* it. push() has no cancellation predicate and the loops go on.
C22_NoAttemptAfterCancel ==
    canceled_at # None => Cardinality(RetriedRunsAfterCancel) <= 1

\* the Tag the failure site of each constructor has
TagOfSite(site) ==
    CASE site = "new_unknown" -> "Unknown"
      [] site = "new_unsupported_instance_type" -> "UnsupportedInstanceType"
      [] site = "new_cannot_retrieve_cluster_config_file" -> "CannotRetrieveClusterConfigFile"
      [] site = "new_cannot_get_cluster_nodes" -> "CannotGetClusterNodes"
      [] OTHER -> "NotEnoughResourcesToDeployEnvironment"

\* C23: every EngineError carries the Tag of the failure site of its
\* constructor. new_cannot_get_cluster_nodes gives its error the Tag
\* CannotRetrieveClusterConfigFile.
C23_TagOfFailureSite ==
    \A i \in Slots :
        errors[i] # None => Unwrap(errors[i]).tag = TagOfSite(sites[i])

\* C24: on_create, on_create_error, on_delete and on_delete_error of the ECR
\* registry return Ok or Err and never abort the calling thread. Three of
\* them end in unimplemented!().
C24_HooksReturn ==
    \A t \in 1..MaxThreads :
        \A i \in DOMAIN registry_hooks[t].returned :
            registry_hooks[t].returned[i] \in {"Ok", "Err"}

C27_CancellationOnlyIfCanceled ==
    (Returned /\ result.kind = "err" /\ result.tag = "TaskCancellationRequested") => canceled

\* a step taken at entry or right before the clone with the task cancelled
\* returns TaskCancellationRequested and starts no clone
CancelSeenAtEntryAndPreClone ==
    /\ (pc = "entry" /\ canceled) =>
         (pc' = "done" /\ result' = new_task_cancellation_requested)
    /\ (pc = "workspace" /\ canceled /\ result' # BuildError("CannotGetWorkspaceDirectory")) =>
         (pc' = "done" /\ result' = new_task_cancellation_requested /\ clones' = clones)

\* a step taken where the build process is started, with the task cancelled,
\* starts no build process
CancelSeenPreBuild ==
    (pc \in {"select", "builder"} /\ canceled) =>
        (cmds' = cmds /\ pc' \notin {"docker_running", "pack_running"})

\* C28: is_task_canceled is sampled at entry, right before the clone and
\* before the build process is started, and a true sample returns
\* TaskCancellationRequested without starting the phase. build() has no
\* sample between the clone and the start of the build process.
C28_SampledAtPhases == [][CancelSeenAtEntryAndPreClone /\ CancelSeenPreBuild]_vars

\* the names of the docker objects the prune commands run so far act on
PrunedObjects == [i \in DOMAIN disk_check.prunes |-> disk_check.prunes[i].args[1]]

\* the prune sequence has returned
PrunesReturned == disk_check.pc = "done" /\ disk_check.warnings > 0

\* C29: the prune sequence runs its four commands in the order container,
\* image, builder, volume, each exactly once and whether or not an earlier
\* one failed; it returns an error exactly when at least one command failed,
\* and the error lists every command that failed.
C29_PruneSequence ==
    /\ \A i \in DOMAIN PrunedObjects :
          PrunedObjects[i] = <<T("container"), T("image"), T("builder"), T("volume")>>[i]
    /\ PrunesReturned =>
          LET r == Unwrap(disk_check.returned)
          IN  /\ Len(disk_check.prunes) = 4
              /\ \A i \in 1..4 : disk_check.prunes[i].binary = "docker"
              /\ r.ok <=> disk_check.failed = {}
              /\ \A i \in 1..4 :
                    i \in disk_check.failed <=>
                        \E j \in DOMAIN r.message :
                            SubSeq(r.message[j], 1, 1) = PrunedObjects[i]

C29_Witness ==
    /\ PrunesReturned
    /\ disk_check.failed = {1, 3}
    /\ ~Unwrap(disk_check.returned).ok

\* C30: the disk check runs the prune sequence exactly when
\* available * 100 / total (integer division) is below 60 or available is 0,
\* runs no prune command otherwise, and completes with a result for every
\* disk size, a total size of zero included. The division panics when the
\* total size is zero.
C30_DiskPressure ==
    /\ disk_check.pc # "panicked"
    /\ disk_check.pc = "done" =>
          /\ disk_check.returned # None
          /\ (disk_check.prunes # <<>>) <=>
                (\/ docker_path_size_info.available = 0
                 \/ /\ docker_path_size_info.total # 0
                    /\ (docker_path_size_info.available * 100)
                            \div docker_path_size_info.total < 60)

\* the `docker ... prune` commands run so far
PrunesRun == SelectSeq(cmds, LAMBDA c : c \in {PruneCommands[i] : i \in DOMAIN PruneCommands})

\* C31: the disk check is best-effort and runs outside CI only: with the CI
\* variable set no prune command is run, and a failure of the check or of a
\* prune command is logged as a warning and build() goes on to the selection
\* of the strategy. The check panics on a disk of total size zero (C30), and
\* the panic unwinds build().
C31_BestEffortDiskCheck ==
    /\ ci_env => PrunesRun = <<>>
    /\ (prune_result # None /\ Unwrap(prune_result) # <<>>) => warning_logs >= 1
    /\ pc # "panicked"

\* C32: has_cache never reports an absent cache as an error: it returns
\* MissWithoutParentBuild when there is no previous build, Hit exactly when
\* there is a previous build and the image query printed at least one line,
\* and Miss(parent build) otherwise, the query failing or timing out included.
C32_CacheNeverAnError ==
    (cache_check.pc = "done" /\ cache_check.workspace_ok
        /\ Unwrap(cache_check.previous).kind # "err") =>
        LET r == cache_check.returned
            previous == Unwrap(cache_check.previous)
        IN  /\ r.kind = "ok"
            /\ previous.kind = "none" => r.value.variant = "MissWithoutParentBuild"
            /\ r.value.variant = "Hit" <=>
                    (previous.kind = "some" /\ cache_check.stdout_lines >= 1)
            /\ (previous.kind = "some" /\ cache_check.stdout_lines = 0) =>
                    r.value = [variant |-> "Miss", parent |-> previous.parent]

C32_Witness ==
    /\ cache_check.pc = "done"
    /\ cache_check.status = "timeout"
    /\ cache_check.stdout_lines = 0
    /\ cache_check.stderr_lines >= 1
    /\ cache_check.returned.value = [variant |-> "Miss", parent |-> 2]

\* a step that does not delete the repository
RepositoryKept == repo_exists => repo_exists'

\* a step that creates the repository is the create_repository call of a
\* push or a pull that found no repository
RepositoryCreatedWhenAbsent ==
    (~repo_exists /\ repo_exists') =>
        /\ rop \in {"pull", "push"}
        /\ rpc = "create_repository"
        /\ rcalls'[Len(rcalls')] = "create_repository"

\* C33: no operation of the registry deletes a remote repository: over any
\* sequence of operations the existing repositories only grow, and a
\* repository is created only by a push or a pull, when it is absent.
C33_RepositoriesOnlyGrow == [][RepositoryKept /\ RepositoryCreatedWhenAbsent]_vars

C33_Witness ==
    /\ repository_seen = Some([found |-> FALSE, existed |-> FALSE])
    /\ repo_exists
    /\ rpc = "done"

\* the list of service s after the step is the list before it followed by
\* exactly one listener
OneAppended(s) ==
    /\ Len(listeners'[s]) = Len(listeners[s]) + 1
    /\ SubSeq(listeners'[s], 1, Len(listeners[s])) = listeners[s]

\* C34: the listener list of a service is append-only: add_listener appends
\* exactly one listener at the end and leaves the earlier ones in place and
\* in order, and no build, push, pull or lifecycle operation adds, removes
\* or reorders listeners.
C34_ListenersAppendOnly ==
    [][\A s \in ListeningServices :
          IF last_call' = [service |-> s, operation |-> "add_listener"]
            THEN OneAppended(s)
            ELSE listeners'[s] = listeners[s]]_vars

C34_Witness ==
    /\ last_call = [service |-> "RedisAws", operation |-> "on_delete"]
    /\ listeners # <<>>
    /\ listeners["ECR"] = <<2, 1>>
    /\ listeners["RedisAws"] = <<1, 2>>

\* C35: a build() call that reaches the execution of a strategy emits exactly
\* one closing progress message, and its marker matches the outcome: the
\* checkmark exactly when the build succeeded, the cancellation marker
\* exactly when the error Tag is TaskCancellationRequested, the failure
\* marker for every other error.
C35_OneClosingMessage ==
    /\ Len(closing) <= 1
    /\ (pc = "done" /\ (DockerBuilds # <<>> \/ PackBuilds # <<>>)) =>
          /\ Len(closing) = 1
          /\ closing[1] = "built" <=> result.kind = "ok"
          /\ closing[1] = "canceled" <=>
                (result.kind = "err" /\ result.tag = "TaskCancellationRequested")
          /\ closing[1] = "failed" <=>
                (result.kind = "err" /\ result.tag # "TaskCancellationRequested")

C35_Witness ==
    /\ pc = "done"
    /\ DockerBuilds # <<>>
    /\ closing = <<"canceled">>

\* a builder attempt that ends while cancellation is requested, and not by
\* the timeout, is not followed by the attempt of the next builder
LastAttemptAfterCancel ==
    (pc = "pack_running" /\ canceled /\ ~timed_out /\ pc' # "pack_running") =>
        (pc' # "builder" /\ builder_idx' = builder_idx)

CreateCalls == Count(rcalls, "create_repository")

\* C37: in create_repository a create call of the API is issued only right
\* after a failed describe call of the same attempt, one per failed describe;
\* no create call follows a successful describe; every failed describe leads
\* to another attempt until the cap; and the retry succeeds exactly when a
\* describe succeeds, whatever the create calls returned.
C37_CreateAfterFailedDescribe ==
    /\ \A i \in DOMAIN rcalls :
          rcalls[i] = "create_repository" =>
              (i > 1 /\ rcalls[i - 1] = "describe_repositories")
    /\ rpc = "create_repository" =>
          /\ retry.status = "running"
          /\ CreateCalls = retry.tries - 1
    /\ rpc = "lifecycle_policy" =>
          /\ retry.status = "ok"
          /\ CreateCalls = retry.tries - 1
          /\ rcalls[Len(rcalls)] = "describe_repositories"
    /\ (rpc = "done" /\ rresult.tag = "ContainerRegistryNamespaceCreationError") =>
          /\ retry.status = "failed"
          /\ CreateCalls = 25
          /\ rcalls[Len(rcalls)] = "create_repository"

C37_Witness ==
    /\ rpc = "lifecycle_policy"
    /\ CreateCalls = 3
    /\ repo_exists
    /\ repository_seen = Some([found |-> FALSE, existed |-> FALSE])

\* C38: every call of create_repository, and so of get_or_create_repository
\* and of push, completes with Ok(repository) or Err(EngineError); when the
\* creation retry and the lifecycle policy call succeed and the final lookup
\* finds no repository, an error is returned. The final lookup is
\* get_repository(image).expect(..), which panics on None.
C38_CreateRepositoryReturns ==
    /\ rpc # "panicked"
    /\ rpc = "done" => rresult.kind \in {"ok", "err"}

\* two errors that differ in their raw message only, if at all
SameButRawMessage(e1, e2) == [e1 EXCEPT !.raw_message = e2.raw_message] = e2

\* C39: to_legacy_engine_error never exposes the raw message: the message of
\* the legacy error is exactly the safe message of the error, absent when no
\* safe message was supplied, so two errors that differ only in their raw
\* message convert to equal legacy errors.
C39_LegacyErrorHidesRawMessage ==
    /\ \A i \in Slots :
          legacy_errors[i] # None =>
              Unwrap(legacy_errors[i]).message = Unwrap(errors[i]).raw_message_safe
    /\ \A i \in Slots, j \in Slots :
          (/\ legacy_errors[i] # None
           /\ legacy_errors[j] # None
           /\ SameButRawMessage(Unwrap(errors[i]), Unwrap(errors[j]))) =>
              legacy_errors[i] = legacy_errors[j]

C39_Witness ==
    /\ legacy_errors[1] # None
    /\ legacy_errors[2] # None
    /\ SameButRawMessage(Unwrap(errors[1]), Unwrap(errors[2]))
    /\ Unwrap(errors[1]).raw_message = Some("token=s3cr3t")
    /\ Unwrap(errors[2]).raw_message = Some("cannot connect")
    /\ Unwrap(errors[1]).raw_message_safe = None

\* the message the not-enough-resources error is to carry for its arguments:
\* the requested amount first, then the free one, a line per short resource
NotEnoughResourcesMessage(requested_ram_in_mib, free_ram_in_mib, requested_cpu, free_cpu) ==
    <<"There is not enough resources on the cluster:">>
    \o (IF requested_cpu > free_cpu
          THEN <<"\n", ToString(requested_cpu), " CPU requested and only ",
                 ToString(free_cpu), " CPU available">>
          ELSE <<>>)
    \o (IF requested_ram_in_mib > free_ram_in_mib
          THEN <<"\n", ToString(requested_ram_in_mib), "mib RAM requested and only ",
                 ToString(free_ram_in_mib), "mib RAM  available">>
          ELSE <<>>)

\* C40: new_cannot_deploy_not_enough_resources_available builds a message
\* that has the CPU line exactly when the requested CPU exceeds the free CPU,
\* with the requested value in the "requested" position and the free value in
\* the "available" position, and the RAM line exactly when requested_ram_in_mib
\* > free_ram_in_mib. The constructor tests free_cpu > requested_cpu and
\* formats free_cpu first.
C40_NotEnoughResourcesMessage ==
    \A i \in Slots :
        sites[i] = "new_cannot_deploy_not_enough_resources_available" =>
            \A requested_ram \in Amounts, free_ram \in Amounts,
               requested_cpu \in Amounts, free_cpu \in Amounts :
                Unwrap(errors[i]) = new_cannot_deploy_not_enough_resources_available(
                                        requested_ram, free_ram, requested_cpu, free_cpu)
                    => Unwrap(errors[i]).user_log_message =
                           NotEnoughResourcesMessage(requested_ram, free_ram,
                                                     requested_cpu, free_cpu)

====
